---------------------------- MODULE Spec2Model ----------------------------
(* Credential-pool manager (KeyManager) and its singleton lifecycle holder   *)
(* (get_key_manager_instance / reset_key_manager_instance) of                *)
(* app/service/key/key_manager.py.                                           *)
(*                                                                           *)
(* Python values are modelled as follows:                                    *)
(*   list            a sequence (index i of the list is element i+1)         *)
(*   dict            a function whose DOMAIN is the set of dict keys         *)
(*   Optional value  a set with at most one element: {} is None, {v} is v    *)
(*   cycle(keys)     the index (0-based) of the element next() yields next   *)
(*   return value    a string: a key, "" (empty result), "True", "False",    *)
(*                   "None", or the name of the exception raised             *)
EXTENDS Integers, Sequences, FiniteSets, TLC

\* ------------------------------------------------------------------ bounds
MaxUsage == 3          \* a usage counter is not driven beyond this value
MaxOverFail == 1       \* a failure counter exceeds MAX_FAILURES by at most this
MaxThreshold == 2      \* largest argument tried for set_usage_threshold
MaxCalls == 6          \* longest run of next-key calls the observers count
MaxManagers == 2       \* managers constructed while callers run concurrently
MaxRounds == 1         \* rounds of the loop of get_next_working_key after the first test

\* ------------------------------------------------------- settings (config)
MAX_FAILURES == 2
MAX_RETRIES == 1
KEY_USAGE_MODE == "polling"
KEY_USAGE_THRESHOLD == 2

\* ------------------------------------------------------------ input spaces
PrimaryPools == { <<>>, <<"K1">>, <<"K1", "K2">>, <<"K3", "K2">> }
VertexPools == { <<>>, <<"V1">>, <<"V1", "V2">> }
PrimaryKeys == {"K1", "K2", "K3"}
VertexKeys == {"V1", "V2"}
Modes == {"polling", "fixed", "random"}

\* --------------------------------------------------------- python helpers
None == {}
Some(v) == {v}
The(o) == CHOOSE v \in o : TRUE
\* truthiness of an Optional dict, list and str (None, {}, [] and "" are falsy)
TruthyDict(o) == o # {} /\ DOMAIN The(o) # {}
TruthyList(o) == o # {} /\ Len(The(o)) > 0
TruthyStr(o) == o # {} /\ The(o) # ""
KeySet(keys) == { keys[i] : i \in 1..Len(keys) }
IndexOf(keys, k) == CHOOSE i \in 0..(Len(keys) - 1) : keys[i + 1] = k
ZeroCounts(keys) == [k \in KeySet(keys) |-> 0]
Min(a, b) == IF a < b THEN a ELSE b
SetMin(S) == CHOOSE x \in S : \A y \in S : x <= y
DictGet(d, k, default) == IF k \in DOMAIN d THEN d[k] ELSE default
\* d[k] = d.get(k, 0) + 1
DictInc(d, k) ==
  [x \in DOMAIN d \cup {k} |-> IF x = k THEN DictGet(d, k, 0) + 1 ELSE d[x]]

\* ------------------------------------------------- key selection (one pool)
\* A selection state s is [key, exc, n, cyc, idx, usage]: the key last returned,
\* the exception raised (""  if none), the number of next-key calls made so
\* far, the cycle position, the fixed-key index and the usage counts.
SelState(cyc, idx, usage) ==
  [key |-> "", exc |-> "", n |-> 0, cyc |-> cyc, idx |-> idx, usage |-> usage]

\* faulty variant: the cycle is read but never advanced
PollingKeyStuck(keys, s) ==
  IF keys = <<>>
  THEN [s EXCEPT !.key = "", !.exc = "RuntimeError", !.n = @ + 1]
  ELSE LET key == keys[s.cyc + 1]
       IN  [s EXCEPT !.key = key, !.n = @ + 1,
                     !.usage = DictInc(s.usage, key)]

\* next(self.key_cycle) and the usage increment of polling mode.  next() of
\* cycle([]) raises StopIteration, which a coroutine turns into RuntimeError.
PollingKey(keys, s) ==
  IF keys = <<>>
  THEN [s EXCEPT !.key = "", !.exc = "RuntimeError", !.n = @ + 1]
  ELSE LET key == keys[s.cyc + 1]
       IN  [s EXCEPT !.key = key, !.n = @ + 1,
                     !.cyc = (s.cyc + 1) % Len(keys),
                     !.usage = DictInc(s.usage, key)]

\* the index the fixed key moves to when its usage has reached the threshold
FixedAdvance(idx, len) == (idx + 1) % len

\* faulty variant: the key is switched one call too late
ThresholdReachedLate(usage_count, threshold) == usage_count > threshold

\* the check "usage_count >= self.usage_threshold"
ThresholdReached(usage_count, threshold) == usage_count >= threshold

\* _get_fixed_key / _get_fixed_vertex_key
FixedKey(keys, threshold, s) ==
  IF keys = <<>>
  THEN [s EXCEPT !.key = "", !.n = @ + 1]
  ELSE LET current_key == keys[s.idx + 1]
           usage_count == DictGet(s.usage, current_key, 0)
           switch == ThresholdReached(usage_count, threshold)
           new_idx == IF switch THEN FixedAdvance(s.idx, Len(keys)) ELSE s.idx
           key == keys[new_idx + 1]
       IN  [s EXCEPT !.key = key, !.n = @ + 1, !.idx = new_idx,
                     !.usage = DictInc(s.usage, key)]

\* get_next_key / get_next_vertex_key
NextKey(keys, mode, threshold, s) ==
  IF mode = "fixed" THEN FixedKey(keys, threshold, s) ELSE PollingKey(keys, s)

\* is_key_valid on a key of the failure dict
KeyValid(fail, key) == fail[key] < MAX_FAILURES

\* faulty variant: exhaustion is signalled by the empty string
FallbackEmpty(t) == [t EXCEPT !.key = ""]

\* "if current_key == initial_key: return current_key": no key is valid and
\* the key that closed the round is returned
Fallback(t) == t

\* the while-loop of get_next_working_key; s.key is current_key.
\* is_key_valid raises KeyError for a key that is not in the failure dict.
RECURSIVE WorkingLoop(_, _, _, _, _, _)
WorkingLoop(keys, mode, threshold, fail, initial_key, s) ==
  IF s.key \notin DOMAIN fail THEN [s EXCEPT !.exc = "KeyError"]
  ELSE IF KeyValid(fail, s.key) THEN s
  ELSE LET t == NextKey(keys, mode, threshold, s)
       IN  IF t.exc # "" THEN t
           ELSE IF t.key = initial_key THEN Fallback(t)
           ELSE WorkingLoop(keys, mode, threshold, fail, initial_key, t)

\* get_next_working_key / get_next_working_vertex_key
NextWorkingKey(keys, mode, threshold, fail, s) ==
  LET first == NextKey(keys, mode, threshold, s)
  IN  IF first.exc # "" THEN first
      ELSE WorkingLoop(keys, mode, threshold, fail, first.key, first)

\* ------------------------------------------------------------------ state
VARIABLES
  singleton_instance,              \* TRUE iff _singleton_instance is a manager
  api_keys, vertex_api_keys,
  key_cycle, vertex_key_cycle,
  key_failure_counts, vertex_key_failure_counts,
  key_usage_counts, vertex_key_usage_counts,
  usage_mode, usage_threshold,
  current_fixed_key_index, current_vertex_fixed_key_index,
  preserved,                       \* the _preserved_* globals, one field each
  op, ret,                         \* observer: the last call and what it returned
  calls,                           \* observer: next-key calls since a fresh construction
  run,                             \* observer: fixed-mode next-key calls since usage 0, index 0
  released,                        \* observer: the manager last released, until the
                                   \* call after the next construction
  task,                            \* per caller inside a call: the call and the lock it awaits
  lock,                            \* per asyncio.Lock in use: its holder, then its waiters
  handed,                          \* observer: per primary key, the times it was handed out
  epoch                            \* observer: the managers constructed so far

primary == <<api_keys, key_cycle, key_failure_counts, key_usage_counts,
             current_fixed_key_index>>
vertex == <<vertex_api_keys, vertex_key_cycle, vertex_key_failure_counts,
            vertex_key_usage_counts, current_vertex_fixed_key_index>>
policy == <<usage_mode, usage_threshold>>
observers == <<op, ret, calls, run, released>>
callers == <<task, lock, handed, epoch>>
vars == <<singleton_instance, primary, vertex, policy, preserved, observers,
          callers>>

\* the callers: asyncio tasks of one event loop
Tasks == {"t1", "t2"}
\* a caller that is in no call
Idle ==
  [op |-> "", at |-> "", key |-> "", initial |-> None, seen |-> 0,
   rest |-> <<>>]
\* the locks of KeyManager.__init__, the module's _singleton_lock, and one
\* name per caller for a lock that a caller would create for itself
ManagerLocks ==
  {"key_cycle_lock", "vertex_key_cycle_lock", "failure_count_lock",
   "vertex_failure_count_lock", "usage_count_lock", "vertex_usage_count_lock",
   "fixed_key_lock", "vertex_fixed_key_lock"}
Locks == ManagerLocks \cup {"_singleton_lock"} \cup Tasks

NoPreserved ==
  [failure_counts |-> None, vertex_failure_counts |-> None,
   old_api_keys_for_reset |-> None, vertex_old_api_keys_for_reset |-> None,
   next_key_in_cycle |-> None, vertex_next_key_in_cycle |-> None,
   usage_counts |-> None, vertex_usage_counts |-> None,
   fixed_key_index |-> None, vertex_fixed_key_index |-> None]

\* the result dict of get_keys_by_status before the first key is entered
NoReport == [valid_keys |-> <<>>, invalid_keys |-> <<>>]

\* a call: its name, its key argument, its numeric argument, the number of
\* next-key calls it made, whether it logged the key-invalid warning and the
\* dict it returned
Call(name, key, n) ==
  [name |-> name, key |-> key, n |-> n, nk |-> 0, warn |-> FALSE,
   out |-> NoReport]

\* the values the manager variables hold while _singleton_instance is None
NoManager ==
  /\ api_keys' = <<>> /\ vertex_api_keys' = <<>>
  /\ key_cycle' = 0 /\ vertex_key_cycle' = 0
  /\ key_failure_counts' = <<>> /\ vertex_key_failure_counts' = <<>>
  /\ key_usage_counts' = <<>> /\ vertex_key_usage_counts' = <<>>
  /\ usage_mode' = KEY_USAGE_MODE /\ usage_threshold' = KEY_USAGE_THRESHOLD
  /\ current_fixed_key_index' = 0 /\ current_vertex_fixed_key_index' = 0

\* module load: no instance, nothing preserved
Init ==
  /\ singleton_instance = FALSE
  /\ api_keys = <<>> /\ vertex_api_keys = <<>>
  /\ key_cycle = 0 /\ vertex_key_cycle = 0
  /\ key_failure_counts = <<>> /\ vertex_key_failure_counts = <<>>
  /\ key_usage_counts = <<>> /\ vertex_key_usage_counts = <<>>
  /\ usage_mode = KEY_USAGE_MODE /\ usage_threshold = KEY_USAGE_THRESHOLD
  /\ current_fixed_key_index = 0 /\ current_vertex_fixed_key_index = 0
  /\ preserved = NoPreserved
  /\ op = Call("load", "", 0) /\ ret = "None"
  /\ calls = -1 /\ run = -1 /\ released = None
  /\ task = <<>>
  /\ lock = <<>>
  /\ handed = <<>> /\ epoch = 0

\* ------------------------------------------------------------- observers
PrimarySel == SelState(key_cycle, current_fixed_key_index, key_usage_counts)
VertexSel ==
  SelState(vertex_key_cycle, current_vertex_fixed_key_index, vertex_key_usage_counts)
UsageWithin(usage) == \A k \in DOMAIN usage : usage[k] <= MaxUsage
Count(c, n) == IF c >= 0 /\ c + n <= MaxCalls THEN c + n ELSE -1
\* n next-key calls on the primary pool under the current mode
CountCalls(n) ==
  /\ calls' = IF n = 0 THEN calls
              ELSE IF usage_mode = "fixed" THEN -1 ELSE Count(calls, n)
  /\ run' = IF n = 0 THEN run
            ELSE IF usage_mode = "fixed" THEN Count(run, n) ELSE -1

\* ------------------------------------------------------ manager operations
\* the assignments a selection result t makes to the primary pool
StorePrimary(t) ==
  /\ key_cycle' = t.cyc
  /\ current_fixed_key_index' = t.idx
  /\ key_usage_counts' = t.usage
  /\ ret' = IF t.exc # "" THEN t.exc ELSE t.key
  /\ CountCalls(t.n)

GetNextKey ==
  /\ singleton_instance
  /\ LET t == NextKey(api_keys, usage_mode, usage_threshold, PrimarySel)
     IN  /\ UsageWithin(t.usage)
         /\ StorePrimary(t)
         /\ op' = [Call("get_next_key", "", 0) EXCEPT !.nk = t.n]
  /\ released' = None
  /\ UNCHANGED <<singleton_instance, api_keys, key_failure_counts, vertex,
                 policy, preserved>>

GetNextWorkingKey ==
  /\ singleton_instance
  /\ LET t == NextWorkingKey(api_keys, usage_mode, usage_threshold,
                             key_failure_counts, PrimarySel)
     IN  /\ UsageWithin(t.usage)
         /\ StorePrimary(t)
         /\ op' = [Call("get_next_working_key", "", 0) EXCEPT !.nk = t.n]
  /\ released' = None
  /\ UNCHANGED <<singleton_instance, api_keys, key_failure_counts, vertex,
                 policy, preserved>>

\* faulty variant: a failure is counted twice
FailureIncrementTwice(count) == count + 2

\* "self.key_failure_counts[api_key] += 1"
FailureIncrement(count) == count + 1

\* faulty variant: one retry too many
RetryAllowedInclusive(retries) == retries <= MAX_RETRIES

\* "if retries < settings.MAX_RETRIES"
RetryAllowed(retries) == retries < MAX_RETRIES

\* "if self.key_failure_counts[api_key] >= self.MAX_FAILURES: logger.warning"
WarnsInvalid(count) == count >= MAX_FAILURES

\* handle_api_failure; a key that is not in the dict raises KeyError at "+= 1"
HandleApiFailure(api_key, retries) ==
  /\ singleton_instance
  /\ IF api_key \notin DOMAIN key_failure_counts
     THEN /\ ret' = "KeyError"
          /\ op' = Call("handle_api_failure", api_key, retries)
          /\ UNCHANGED <<primary, calls, run>>
     ELSE LET fail == [key_failure_counts EXCEPT
                         ![api_key] = FailureIncrement(@)]
              warn == WarnsInvalid(fail[api_key])
          IN  /\ fail[api_key] <= MAX_FAILURES + MaxOverFail
              /\ key_failure_counts' = fail
              /\ IF RetryAllowed(retries)
                 THEN LET t == NextWorkingKey(api_keys, usage_mode,
                                              usage_threshold, fail, PrimarySel)
                      IN  /\ UsageWithin(t.usage)
                          /\ StorePrimary(t)
                          /\ op' = [Call("handle_api_failure", api_key, retries)
                                      EXCEPT !.nk = t.n, !.warn = warn]
                 ELSE /\ ret' = ""
                      /\ op' = [Call("handle_api_failure", api_key, retries)
                                  EXCEPT !.warn = warn]
                      /\ UNCHANGED <<key_cycle, current_fixed_key_index,
                                     key_usage_counts, calls, run>>
  /\ released' = None
  /\ UNCHANGED <<singleton_instance, api_keys, vertex, policy, preserved>>

\* is_key_valid; "self.key_failure_counts[key]" raises KeyError for an absent key
IsKeyValid(key) ==
  /\ singleton_instance
  /\ ret' = IF key \notin DOMAIN key_failure_counts THEN "KeyError"
            ELSE IF KeyValid(key_failure_counts, key) THEN "True" ELSE "False"
  /\ op' = Call("is_key_valid", key, 0)
  /\ released' = None
  /\ UNCHANGED <<singleton_instance, primary, vertex, policy, preserved,
                 calls, run>>

\* is_vertex_key_valid, as is_key_valid on the vertex pool
IsVertexKeyValid(key) ==
  /\ singleton_instance
  /\ ret' = IF key \notin DOMAIN vertex_key_failure_counts THEN "KeyError"
            ELSE IF KeyValid(vertex_key_failure_counts, key) THEN "True"
            ELSE "False"
  /\ op' = Call("is_vertex_key_valid", key, 0)
  /\ released' = None
  /\ UNCHANGED <<singleton_instance, primary, vertex, policy, preserved,
                 calls, run>>

ResetFailureCounts ==
  /\ singleton_instance
  /\ key_failure_counts' = [k \in DOMAIN key_failure_counts |-> 0]
  /\ op' = Call("reset_failure_counts", "", 0) /\ ret' = "None"
  /\ released' = None
  /\ UNCHANGED <<singleton_instance, api_keys, key_cycle, key_usage_counts,
                 current_fixed_key_index, vertex, policy, preserved,
                 calls, run>>

\* faulty variant: the reset of one key clears the whole dict
ResetKeyFailureCountAll(key) ==
  /\ singleton_instance
  /\ IF key \in DOMAIN key_failure_counts
     THEN /\ key_failure_counts' = [k \in DOMAIN key_failure_counts |-> 0]
          /\ ret' = "True"
     ELSE /\ ret' = "False"
          /\ UNCHANGED key_failure_counts
  /\ op' = Call("reset_key_failure_count", key, 0)
  /\ released' = None
  /\ UNCHANGED <<singleton_instance, api_keys, key_cycle, key_usage_counts,
                 current_fixed_key_index, vertex, policy, preserved,
                 calls, run>>

ResetKeyFailureCount(key) ==
  /\ singleton_instance
  /\ IF key \in DOMAIN key_failure_counts
     THEN /\ key_failure_counts' = [key_failure_counts EXCEPT ![key] = 0]
          /\ ret' = "True"
     ELSE /\ ret' = "False"
          /\ UNCHANGED key_failure_counts
  /\ op' = Call("reset_key_failure_count", key, 0)
  /\ released' = None
  /\ UNCHANGED <<singleton_instance, api_keys, key_cycle, key_usage_counts,
                 current_fixed_key_index, vertex, policy, preserved,
                 calls, run>>

\* ----------------------------------------------------------- status report
\* the locks get_keys_by_status and get_vertex_keys_by_status hold while they
\* read; get_all_keys_with_fail_count holds the failure lock only
FailureLockOnly(pool) == {pool \o "failure_count_lock"}

StatusLocks(pool) ==
  {pool \o "failure_count_lock", pool \o "usage_count_lock"}

\* what one write of another caller can make of the counts c of a pool while
\* the locks in held are taken: the usage increment of get_next_key waits for
\* the usage lock, the failure increment of handle_api_failure for the
\* failure lock
Interleaved(held, pool, c) ==
  {c}
  \cup (IF pool \o "usage_count_lock" \in held THEN {}
        ELSE { [c EXCEPT !.usage[k] = @ + 1] :
               k \in { x \in DOMAIN c.usage : c.usage[x] < MaxUsage } })
  \cup (IF pool \o "failure_count_lock" \in held THEN {}
        ELSE { [c EXCEPT !.fail[k] = FailureIncrement(@)] :
               k \in { x \in DOMAIN c.fail :
                        c.fail[x] < MAX_FAILURES + MaxOverFail } })

DictPut(d, k, v) == [x \in DOMAIN d \cup {k} |-> IF x = k THEN v ELSE d[x]]

\* the loop over the key list: key i is read and entered, then the loop goes
\* on from the counts another caller may have written meanwhile
RECURSIVE StatusLoop(_, _, _, _, _, _)
StatusLoop(keys, i, held, pool, c, report) ==
  IF i > Len(keys) THEN {[c |-> c, out |-> report]}
  ELSE LET key == keys[i]
           key_info == [fail_count |-> c.fail[key],
                        usage_count |-> DictGet(c.usage, key, 0)]
           entered ==
             IF key_info.fail_count < MAX_FAILURES
             THEN [report EXCEPT !.valid_keys = DictPut(@, key, key_info)]
             ELSE [report EXCEPT !.invalid_keys = DictPut(@, key, key_info)]
       IN  IF i = Len(keys) THEN {[c |-> c, out |-> entered]}
           ELSE UNION { StatusLoop(keys, i + 1, held, pool, c2, entered) :
                        c2 \in Interleaved(held, pool, c) }

GetKeysByStatus ==
  /\ singleton_instance
  /\ \E t \in StatusLoop(api_keys, 1, StatusLocks(""), "",
                         [fail |-> key_failure_counts,
                          usage |-> key_usage_counts], NoReport) :
       /\ key_failure_counts' = t.c.fail
       /\ key_usage_counts' = t.c.usage
       /\ op' = [Call("get_keys_by_status", "", 0) EXCEPT !.out = t.out]
  /\ ret' = "dict"
  /\ released' = None
  /\ UNCHANGED <<singleton_instance, api_keys, key_cycle,
                 current_fixed_key_index, vertex, policy, preserved,
                 calls, run>>

GetVertexKeysByStatus ==
  /\ singleton_instance
  /\ \E t \in StatusLoop(vertex_api_keys, 1, StatusLocks("vertex_"), "vertex_",
                         [fail |-> vertex_key_failure_counts,
                          usage |-> vertex_key_usage_counts], NoReport) :
       /\ vertex_key_failure_counts' = t.c.fail
       /\ vertex_key_usage_counts' = t.c.usage
       /\ op' = [Call("get_vertex_keys_by_status", "", 0) EXCEPT !.out = t.out]
  /\ ret' = "dict"
  /\ released' = None
  /\ UNCHANGED <<singleton_instance, primary, vertex_api_keys,
                 vertex_key_cycle, current_vertex_fixed_key_index, policy,
                 preserved, calls, run>>

\* ------------------------------------------------- vertex pool operations
\* the assignments a selection result t makes to the vertex pool
StoreVertex(t) ==
  /\ vertex_key_cycle' = t.cyc
  /\ current_vertex_fixed_key_index' = t.idx
  /\ vertex_key_usage_counts' = t.usage
  /\ ret' = IF t.exc # "" THEN t.exc ELSE t.key

GetNextVertexKey ==
  /\ singleton_instance
  /\ LET t == NextKey(vertex_api_keys, usage_mode, usage_threshold, VertexSel)
     IN  /\ UsageWithin(t.usage)
         /\ StoreVertex(t)
         /\ op' = [Call("get_next_vertex_key", "", 0) EXCEPT !.nk = t.n]
  /\ released' = None
  /\ UNCHANGED <<singleton_instance, primary, vertex_api_keys,
                 vertex_key_failure_counts, policy, preserved, calls, run>>

GetNextWorkingVertexKey ==
  /\ singleton_instance
  /\ LET t == NextWorkingKey(vertex_api_keys, usage_mode, usage_threshold,
                             vertex_key_failure_counts, VertexSel)
     IN  /\ UsageWithin(t.usage)
         /\ StoreVertex(t)
         /\ op' = [Call("get_next_working_vertex_key", "", 0) EXCEPT !.nk = t.n]
  /\ released' = None
  /\ UNCHANGED <<singleton_instance, primary, vertex_api_keys,
                 vertex_key_failure_counts, policy, preserved, calls, run>>

\* handle_vertex_api_failure: the count is raised and the warning logged; the
\* function has no return statement, so it returns None whatever retries is
HandleVertexApiFailure(api_key, retries) ==
  /\ singleton_instance
  /\ IF api_key \notin DOMAIN vertex_key_failure_counts
     THEN /\ ret' = "KeyError"
          /\ op' = Call("handle_vertex_api_failure", api_key, retries)
          /\ UNCHANGED vertex_key_failure_counts
     ELSE LET fail == [vertex_key_failure_counts EXCEPT
                         ![api_key] = FailureIncrement(@)]
          IN  /\ fail[api_key] <= MAX_FAILURES + MaxOverFail
              /\ vertex_key_failure_counts' = fail
              /\ ret' = "None"
              /\ op' = [Call("handle_vertex_api_failure", api_key, retries)
                          EXCEPT !.warn = WarnsInvalid(fail[api_key])]
  /\ released' = None
  /\ UNCHANGED <<singleton_instance, primary, vertex_api_keys, vertex_key_cycle,
                 vertex_key_usage_counts, current_vertex_fixed_key_index,
                 policy, preserved, calls, run>>

\* faulty variant: the vertex reset clears the primary dict as well
ResetVertexFailureCountsBoth ==
  /\ singleton_instance
  /\ vertex_key_failure_counts' = [k \in DOMAIN vertex_key_failure_counts |-> 0]
  /\ key_failure_counts' = [k \in DOMAIN key_failure_counts |-> 0]
  /\ op' = Call("reset_vertex_failure_counts", "", 0) /\ ret' = "None"
  /\ released' = None
  /\ UNCHANGED <<singleton_instance, api_keys, key_cycle, key_usage_counts,
                 current_fixed_key_index, vertex_api_keys, vertex_key_cycle,
                 vertex_key_usage_counts, current_vertex_fixed_key_index,
                 policy, preserved, calls, run>>

ResetVertexFailureCounts ==
  /\ singleton_instance
  /\ vertex_key_failure_counts' = [k \in DOMAIN vertex_key_failure_counts |-> 0]
  /\ op' = Call("reset_vertex_failure_counts", "", 0) /\ ret' = "None"
  /\ released' = None
  /\ UNCHANGED <<singleton_instance, primary, vertex_api_keys, vertex_key_cycle,
                 vertex_key_usage_counts, current_vertex_fixed_key_index,
                 policy, preserved, calls, run>>

ResetVertexKeyFailureCount(key) ==
  /\ singleton_instance
  /\ IF key \in DOMAIN vertex_key_failure_counts
     THEN /\ vertex_key_failure_counts' =
               [vertex_key_failure_counts EXCEPT ![key] = 0]
          /\ ret' = "True"
     ELSE /\ ret' = "False"
          /\ UNCHANGED vertex_key_failure_counts
  /\ op' = Call("reset_vertex_key_failure_count", key, 0)
  /\ released' = None
  /\ UNCHANGED <<singleton_instance, primary, vertex_api_keys, vertex_key_cycle,
                 vertex_key_usage_counts, current_vertex_fixed_key_index,
                 policy, preserved, calls, run>>

\* ---------------------------------------------------------------- policy
\* a changed policy ends a counted run of calls that has begun
AnyMode(mode) == TRUE

\* set_usage_mode accepts a mode in ["polling", "fixed"]
ValidMode(mode) == mode \in {"polling", "fixed"}

SetUsageMode(mode) ==
  /\ singleton_instance
  /\ IF ~ValidMode(mode)
     THEN /\ ret' = "False"
          /\ UNCHANGED <<usage_mode, calls, run>>
     ELSE /\ usage_mode' = mode
          /\ ret' = "True"
          /\ calls' = IF mode = usage_mode THEN calls ELSE -1
          /\ run' = IF mode = usage_mode \/ run = 0 THEN run ELSE -1
  /\ op' = Call("set_usage_mode", mode, 0)
  /\ released' = None
  /\ UNCHANGED <<singleton_instance, primary, vertex, usage_threshold,
                 preserved>>

SetUsageThreshold(threshold) ==
  /\ singleton_instance
  /\ IF threshold < 1
     THEN /\ ret' = "False"
          /\ UNCHANGED <<usage_threshold, run>>
     ELSE /\ usage_threshold' = threshold
          /\ ret' = "True"
          /\ run' = IF threshold = usage_threshold \/ run = 0 THEN run ELSE -1
  /\ op' = Call("set_usage_threshold", "", threshold)
  /\ released' = None
  /\ UNCHANGED <<singleton_instance, primary, vertex, usage_mode, preserved,
                 calls>>

\* the route POST /api/keys/usage-mode of an authorized caller while a
\* manager is live: mode is the "mode" of the body, threshold its optional
\* "threshold".  The mode is set before the threshold is looked at.
SetKeyUsageModeRoute(mode, threshold) ==
  /\ singleton_instance
  /\ op' = Call("set_key_usage_mode", mode,
                IF threshold = None THEN -1 ELSE The(threshold))
  /\ IF mode = "" \/ ~ValidMode(mode)
     THEN /\ ret' = "400"
          /\ UNCHANGED <<policy, calls, run>>
     ELSE /\ usage_mode' = mode
          /\ calls' = IF mode = usage_mode THEN calls ELSE -1
          /\ IF threshold = None
             THEN /\ ret' = "200"
                  /\ run' = IF mode = usage_mode \/ run = 0 THEN run ELSE -1
                  /\ UNCHANGED usage_threshold
             ELSE IF The(threshold) < 1
             THEN /\ ret' = "400"
                  /\ run' = IF mode = usage_mode \/ run = 0 THEN run ELSE -1
                  /\ UNCHANGED usage_threshold
             ELSE /\ ret' = "200"
                  /\ usage_threshold' = The(threshold)
                  /\ run' = IF (mode = usage_mode
                                  /\ The(threshold) = usage_threshold)
                               \/ run = 0
                            THEN run ELSE -1
  /\ released' = None
  /\ UNCHANGED <<singleton_instance, primary, vertex, preserved>>

ResetUsageCountsPrimaryOnly ==
  /\ singleton_instance
  /\ key_usage_counts' = [k \in DOMAIN key_usage_counts |-> 0]
  /\ op' = Call("reset_usage_counts", "", 0) /\ ret' = "None"
  /\ run' = IF current_fixed_key_index = 0 THEN 0 ELSE -1
  /\ released' = None
  /\ UNCHANGED <<singleton_instance, api_keys, key_cycle, key_failure_counts,
                 current_fixed_key_index, vertex, policy, preserved, calls>>

ResetUsageCounts ==
  /\ singleton_instance
  /\ key_usage_counts' = [k \in DOMAIN key_usage_counts |-> 0]
  /\ vertex_key_usage_counts' = [k \in DOMAIN vertex_key_usage_counts |-> 0]
  /\ op' = Call("reset_usage_counts", "", 0) /\ ret' = "None"
  /\ run' = IF current_fixed_key_index = 0 THEN 0 ELSE -1
  /\ released' = None
  /\ UNCHANGED <<singleton_instance, api_keys, key_cycle, key_failure_counts,
                 current_fixed_key_index, vertex_api_keys, vertex_key_cycle,
                 vertex_key_failure_counts, current_vertex_fixed_key_index,
                 policy, preserved, calls>>

\* -------------------------------------------------------------- lifecycle
\* faulty variant: the new manager starts from zero
InheritCountsFresh(saved, keys) == ZeroCounts(keys)

\* faulty variant: the preserved dict is kept and only extended by the new keys
InheritCountsStale(saved, keys) ==
  IF TruthyDict(saved)
  THEN [k \in KeySet(keys) \cup DOMAIN The(saved) |-> DictGet(The(saved), k, 0)]
  ELSE ZeroCounts(keys)

\* steps 1 and 1.5 of get_key_manager_instance: the counts of the preserved
\* dict for the keys of the new list, 0 for the others
InheritCounts(saved, keys) ==
  IF TruthyDict(saved)
  THEN [k \in KeySet(keys) |-> DictGet(The(saved), k, 0)]
  ELSE ZeroCounts(keys)

\* faulty variant: the preserved index is restored as it is
InheritIndexUnclamped(saved, keys) ==
  IF saved # None /\ keys # <<>> THEN The(saved) ELSE 0

\* step 1.6: min(preserved index, len - 1)
InheritIndex(saved, keys) ==
  IF saved # None /\ keys # <<>> THEN Min(The(saved), Len(keys) - 1) ELSE 0

\* faulty variant: only the preserved next key itself is looked up in the new list
StartKeyIfPresent(old, hint, keys) ==
  IF TruthyList(old) /\ TruthyStr(hint) /\ keys # <<>>
       /\ The(hint) \in KeySet(keys)
  THEN hint
  ELSE None

\* steps 2 and 3, first half: start_key_for_new_cycle.  From the preserved
\* next key on, in the cyclic order of the old list, the first key that is
\* in the new list; list.index raises ValueError for a hint not in the old list.
StartKeyForNewCycle(old, hint, keys) ==
  IF TruthyList(old) /\ TruthyStr(hint) /\ keys # <<>>
  THEN IF The(hint) \notin KeySet(The(old)) THEN None
       ELSE LET o == The(old)
                start_idx_in_old == IndexOf(o, The(hint))
                at(i) == o[((start_idx_in_old + i) % Len(o)) + 1]
                found == { i \in 0..(Len(o) - 1) : at(i) \in KeySet(keys) }
            IN  IF found = {} THEN None ELSE Some(at(SetMin(found)))
  ELSE None

\* steps 2 and 3, second half: next() is called target_idx times on the new cycle
CycleStart(start, keys) ==
  IF TruthyStr(start) /\ keys # <<>> /\ The(start) \in KeySet(keys)
  THEN IndexOf(keys, The(start)) % Len(keys)
  ELSE 0

\* the construction branch raises ValueError when a key list is None; an
\* empty list is only logged
ArgsMissingOrEmpty(ak, vk) ==
  ak = None \/ vk = None \/ The(ak) = <<>> \/ The(vk) = <<>>

ArgsMissing(ak, vk) == ak = None \/ vk = None

\* how many of the two arguments are None (1: api_keys, 2: vertex_api_keys)
MissingArgs(ak, vk) ==
  (IF ak = None THEN 1 ELSE 0) + (IF vk = None THEN 2 ELSE 0)

\* the construction branch leaves every _preserved_* global None
PreservedKeepsUsage ==
  [NoPreserved EXCEPT !.usage_counts = preserved.usage_counts,
                      !.fixed_key_index = preserved.fixed_key_index]

PreservedAfterConstruction == NoPreserved

InstanceIsNoneOrEmpty == ~singleton_instance \/ api_keys = <<>>

\* faulty variant: the globals are cleared before the arguments are tested
PreservedClearedOnRaise == NoPreserved

\* the _preserved_* globals when ValueError is raised: the arguments are
\* tested before any global is read or written
PreservedAfterRaise == preserved

\* "if _singleton_instance is None"
InstanceIsNone == ~singleton_instance

\* get_key_manager_instance(api_keys, vertex_api_keys); an argument is an
\* Optional list
GetKeyManagerInstance(ak, vk) ==
  /\ op' = Call("get_key_manager_instance", "", MissingArgs(ak, vk))
  /\ IF ~InstanceIsNone
     THEN /\ ret' = "instance"
          /\ UNCHANGED <<singleton_instance, primary, vertex, policy, preserved,
                         calls, run, released>>
     ELSE IF ArgsMissing(ak, vk)
     THEN /\ ret' = "ValueError"
          /\ preserved' = PreservedAfterRaise
          /\ UNCHANGED <<singleton_instance, primary, vertex, policy,
                         calls, run, released>>
     ELSE LET keys == The(ak)
              vkeys == The(vk)
              start == StartKeyForNewCycle(preserved.old_api_keys_for_reset,
                                           preserved.next_key_in_cycle, keys)
              vstart == StartKeyForNewCycle(
                          preserved.vertex_old_api_keys_for_reset,
                          preserved.vertex_next_key_in_cycle, vkeys)
              usage == InheritCounts(preserved.usage_counts, keys)
              index == InheritIndex(preserved.fixed_key_index, keys)
          IN  /\ singleton_instance' = TRUE
              /\ api_keys' = keys /\ vertex_api_keys' = vkeys
              /\ usage_mode' = KEY_USAGE_MODE
              /\ usage_threshold' = KEY_USAGE_THRESHOLD
              /\ key_failure_counts' =
                   InheritCounts(preserved.failure_counts, keys)
              /\ vertex_key_failure_counts' =
                   InheritCounts(preserved.vertex_failure_counts, vkeys)
              /\ key_usage_counts' = usage
              /\ vertex_key_usage_counts' =
                   InheritCounts(preserved.vertex_usage_counts, vkeys)
              /\ current_fixed_key_index' = index
              /\ current_vertex_fixed_key_index' =
                   InheritIndex(preserved.vertex_fixed_key_index, vkeys)
              /\ key_cycle' = CycleStart(start, keys)
              /\ vertex_key_cycle' = CycleStart(vstart, vkeys)
              /\ preserved' = PreservedAfterConstruction
              /\ ret' = "instance"
              /\ calls' = IF preserved = NoPreserved THEN 0 ELSE -1
              /\ run' = IF index = 0 /\ \A k \in DOMAIN usage : usage[k] = 0
                        THEN 0 ELSE -1
              /\ UNCHANGED released

\* the next-key hint of reset_key_manager_instance: the key get_next_key
\* returns, None for an empty list or when the call raises
NextKeyHint(keys, mode, threshold, s) ==
  IF keys = <<>> THEN None
  ELSE LET t == NextKey(keys, mode, threshold, s)
       IN  IF t.exc # "" THEN None ELSE Some(t.key)

\* the selection state after the get_next_key call that gives the hint
AfterHint(keys, mode, threshold, s) ==
  IF keys = <<>> THEN s ELSE NextKey(keys, mode, threshold, s)

\* faulty variant: the counts and the index are copied after the hint call
KeptSelAfterHint(before, after) == after

\* the selection state whose usage counts and fixed index are copied into
\* the globals: the copies are made before get_next_key is awaited
KeptSel(before, after) == before

\* reset_key_manager_instance
ResetKeyManagerInstance ==
  /\ op' = Call("reset_key_manager_instance", "", 0) /\ ret' = "None"
  /\ IF singleton_instance
     THEN /\ preserved' =
               [failure_counts |-> Some(key_failure_counts),
                vertex_failure_counts |-> Some(vertex_key_failure_counts),
                usage_counts |->
                  Some(KeptSel(PrimarySel,
                               AfterHint(api_keys, usage_mode, usage_threshold,
                                         PrimarySel)).usage),
                vertex_usage_counts |-> Some(vertex_key_usage_counts),
                fixed_key_index |->
                  Some(KeptSel(PrimarySel,
                               AfterHint(api_keys, usage_mode, usage_threshold,
                                         PrimarySel)).idx),
                vertex_fixed_key_index |-> Some(current_vertex_fixed_key_index),
                old_api_keys_for_reset |-> Some(api_keys),
                vertex_old_api_keys_for_reset |-> Some(vertex_api_keys),
                next_key_in_cycle |->
                  NextKeyHint(api_keys, usage_mode, usage_threshold, PrimarySel),
                vertex_next_key_in_cycle |->
                  NextKeyHint(vertex_api_keys, usage_mode, usage_threshold,
                              VertexSel)]
          /\ singleton_instance' = FALSE
          /\ NoManager
          /\ calls' = -1 /\ run' = -1
          /\ released' = Some(
               [api_keys |-> api_keys,
                failure_counts |-> key_failure_counts,
                usage_counts |-> key_usage_counts,
                fixed_key_index |-> current_fixed_key_index,
                usage_mode |-> usage_mode,
                next_in_cycle |->
                  IF api_keys = <<>> THEN "" ELSE api_keys[key_cycle + 1],
                hint |->
                  LET h == NextKeyHint(api_keys, usage_mode, usage_threshold,
                                       PrimarySel)
                  IN  IF h = None THEN "" ELSE The(h)])
     ELSE UNCHANGED <<singleton_instance, primary, vertex, policy, preserved,
                      calls, run, released>>

\* ------------------------------------------------------ concurrent callers
\* A caller is suspended only at an await, and the awaits of these calls are
\* the lock acquisitions: a step of a caller runs from one "async with" to
\* the next.  asyncio.Lock serves its waiters first come, first served;
\* lock[l] is the holder of l followed by the callers waiting for it.
Queue(q, l) == IF l \in DOMAIN q THEN q[l] ELSE <<>>
InUse(q) == [l \in { x \in DOMAIN q : q[x] # <<>> } |-> q[l]]
TaskOf(t) == IF t \in DOMAIN task THEN task[t] ELSE Idle
\* the callers of f that are inside a call
Busy(f) == [u \in { x \in DOMAIN f : f[x] # Idle } |-> f[u]]
Put(t, r) ==
  Busy([u \in DOMAIN task \cup {t} |-> IF u = t THEN r ELSE task[u]])
Holds(t, l) == Queue(lock, l) # <<>> /\ Head(Queue(lock, l)) = t
Await(q, t, l) == DictPut(q, l, Append(Queue(q, l), t))
Release(q, ls) ==
  InUse([l \in DOMAIN q |-> IF l \in ls THEN Tail(q[l]) ELSE q[l]])
Without(q, ts) ==
  InUse([l \in DOMAIN q |-> SelectSeq(q[l], LAMBDA x : x \notin ts)])

\* faulty variant: a lock that every caller creates for itself
LockPerCaller(t) == t

\* "async with _singleton_lock"
SingletonLock(t) == "_singleton_lock"

\* "async with self.fixed_key_lock"
FixedKeyLock(t) == "fixed_key_lock"

\* the first lock of get_next_key (pool "") and get_next_vertex_key (pool
\* "vertex_") under a mode
FirstLock(t, pool, mode) ==
  IF mode # "fixed" THEN pool \o "key_cycle_lock"
  ELSE IF pool = "" THEN FixedKeyLock(t)
  ELSE "vertex_fixed_key_lock"

Keys(pool) == IF pool = "" THEN api_keys ELSE vertex_api_keys
Sel(pool) == IF pool = "" THEN PrimarySel ELSE VertexSel
NextKeyName(pool) ==
  IF pool = "" THEN "get_next_key" ELSE "get_next_vertex_key"

\* the assignments a selection result s makes to its pool
StoreSel(pool, s) ==
  IF pool = ""
  THEN /\ key_cycle' = s.cyc
       /\ current_fixed_key_index' = s.idx
       /\ key_usage_counts' = s.usage
       /\ handed' = IF s.key # "" THEN DictInc(handed, s.key) ELSE handed
       /\ UNCHANGED <<vertex_key_cycle, current_vertex_fixed_key_index,
                      vertex_key_usage_counts>>
  ELSE /\ vertex_key_cycle' = s.cyc
       /\ current_vertex_fixed_key_index' = s.idx
       /\ vertex_key_usage_counts' = s.usage
       /\ UNCHANGED <<key_cycle, current_fixed_key_index, key_usage_counts,
                      handed>>

\* a call of caller t returns value
Done(t, name, value) ==
  /\ task' = Put(t, Idle)
  /\ op' = Call(name, "", 0) /\ ret' = value
  /\ calls' = -1 /\ run' = -1 /\ released' = None

\* the callers that are inside a call on the manager
OnManager(ts) ==
  { u \in ts : TaskOf(u).op \notin {"", "get_key_manager_instance",
                                  "reset_key_manager_instance"} }

\* the end of reset_key_manager_instance: "_singleton_instance = None".  The
\* calls in flight on the released manager end on an object that nothing
\* refers to any more; they are followed no further.
Finish(t, pres, q) ==
  /\ preserved' = pres
  /\ singleton_instance' = FALSE
  /\ NoManager
  /\ handed' = <<>>
  /\ task' = Busy([u \in Tasks |->
                     IF u = t \/ u \in OnManager(Tasks) THEN Idle
                     ELSE TaskOf(u)])
  /\ lock' = Without(Release(q, {SingletonLock(t)}), OnManager(Tasks \ {t}))
  /\ op' = Call("reset_key_manager_instance", "", 0) /\ ret' = "None"
  /\ calls' = -1 /\ run' = -1 /\ released' = None
  /\ UNCHANGED epoch

\* reset_key_manager_instance from "if _singleton_instance.vertex_api_keys"
\* on: s is the primary pool as the first hint left it
ProbeVertex(t, s, pres, q) ==
  IF vertex_api_keys # <<>>
  THEN /\ preserved' = pres
       /\ StoreSel("", s)
       /\ task' = Put(t, [TaskOf(t) EXCEPT
                !.at = FirstLock(t, "vertex_", usage_mode),
                !.key = ""])
       /\ lock' = Await(q, t, FirstLock(t, "vertex_", usage_mode))
       /\ UNCHANGED <<singleton_instance, api_keys, vertex_api_keys,
                      key_failure_counts, vertex_key_failure_counts, policy,
                      observers, epoch>>
  ELSE Finish(t, [pres EXCEPT !.vertex_next_key_in_cycle = None], q)

\* "current_key == initial_key" after a get_next_key call of the loop that
\* returned key
RoundClosed(t, key) == TaskOf(t).initial = Some(key)

\* get_next_key returns into get_next_working_key with selection result s:
\* the first key is initial_key and goes to is_key_valid; a later key ends
\* the call if it is initial_key and goes to is_key_valid otherwise
Resume(t, s, q) ==
  /\ StoreSel("", s)
  /\ IF s.exc # "" \/ RoundClosed(t, s.key)
     THEN /\ Done(t, "get_next_working_key",
                  IF s.exc # "" THEN s.exc ELSE Fallback(s).key)
          /\ lock' = q
     ELSE /\ task' = Put(t, [TaskOf(t) EXCEPT
                   !.at = "failure_count_lock",
                   !.key = s.key,
                   !.initial = IF @ = None THEN Some(s.key) ELSE @])
          /\ lock' = Await(q, t, "failure_count_lock")
          /\ UNCHANGED observers
  /\ UNCHANGED <<singleton_instance, api_keys, vertex_api_keys,
                 key_failure_counts, vertex_key_failure_counts, policy,
                 preserved, epoch>>

\* get_next_key or get_next_vertex_key of caller t returns with selection
\* result s, its locks released in q: to the caller, into
\* get_next_working_key, or into reset_key_manager_instance, which keeps the
\* key as its hint
Returned(t, pool, s, q) ==
  IF TaskOf(t).op = "get_next_working_key" THEN Resume(t, s, q)
  ELSE IF TaskOf(t).op # "reset_key_manager_instance"
  THEN /\ StoreSel(pool, s)
       /\ Done(t, NextKeyName(pool), IF s.exc # "" THEN s.exc ELSE s.key)
       /\ lock' = q
       /\ UNCHANGED <<singleton_instance, api_keys, vertex_api_keys,
                      key_failure_counts, vertex_key_failure_counts, policy,
                      preserved, epoch>>
  ELSE LET hint == IF s.exc # "" THEN None ELSE Some(s.key)
       IN  IF pool = ""
           THEN ProbeVertex(t, s,
                            [preserved EXCEPT !.next_key_in_cycle = hint], q)
           ELSE Finish(t, [preserved EXCEPT !.vertex_next_key_in_cycle = hint],
                       q)

\* a step that changes nothing of the manager but the callers
CallerOnly ==
  UNCHANGED <<singleton_instance, primary, vertex, policy, preserved,
              observers, handed, epoch>>

\* every usage count stays within MaxUsage when the calls in flight end
Room ==
  \A k \in DOMAIN key_usage_counts :
    key_usage_counts[k] + Cardinality(OnManager(Tasks)) < MaxUsage

\* get_next_key is called: the mode is read, _get_fixed_key returns "" for an
\* empty pool, and the first lock is awaited
CallGetNextKey(t) ==
  /\ singleton_instance
  /\ TaskOf(t) = Idle
  /\ Room
  /\ IF usage_mode = "fixed" /\ api_keys = <<>>
     THEN /\ Done(t, "get_next_key", "")
          /\ UNCHANGED <<singleton_instance, primary, vertex, policy,
                         preserved, lock, handed, epoch>>
     ELSE /\ task' = Put(t, [TaskOf(t) EXCEPT
                   !.op = "get_next_key",
                   !.at = FirstLock(t, "", usage_mode)])
          /\ lock' = Await(lock, t, FirstLock(t, "", usage_mode))
          /\ CallerOnly

\* under the cycle lock: "key = next(self.key_cycle)", then the usage lock
\* is awaited; StopIteration of an empty cycle leaves the call as RuntimeError
TakeFromCycle(t, pool) ==
  LET l == pool \o "key_cycle_lock"
  IN  /\ TaskOf(t).at = l /\ Holds(t, l)
      /\ IF Keys(pool) = <<>>
         THEN Returned(t, pool, [Sel(pool) EXCEPT !.exc = "RuntimeError"],
                       Release(lock, {l}))
         ELSE /\ task' = Put(t, [TaskOf(t) EXCEPT
                       !.at = pool \o "usage_count_lock",
                       !.key = Keys(pool)[Sel(pool).cyc + 1]])
              /\ lock' = Await(lock, t, pool \o "usage_count_lock")
              /\ StoreSel(pool, [Sel(pool) EXCEPT
                                   !.cyc = (@ + 1) % Len(Keys(pool))])
              /\ UNCHANGED <<singleton_instance, api_keys, vertex_api_keys,
                             key_failure_counts, vertex_key_failure_counts,
                             policy, preserved, observers, epoch>>

\* under the fixed-key lock: "current_key = self.api_keys[...]", then the
\* usage lock is awaited
ReadFixedKey(t, pool) ==
  LET l == FirstLock(t, pool, "fixed")
  IN  /\ TaskOf(t).at = l /\ Holds(t, l)
      /\ task' = Put(t, [TaskOf(t) EXCEPT
               !.at = pool \o "usage_count_lock",
               !.key = Keys(pool)[Sel(pool).idx + 1]])
      /\ lock' = Await(lock, t, pool \o "usage_count_lock")
      /\ CallerOnly

\* faulty variant: the usage of the key read first is counted, also when
\* the call returns the key it switched to
FixedKeyOfCountsRead(keys, threshold, current_key, s) ==
  LET usage_count == DictGet(s.usage, current_key, 0)
      switch == ThresholdReached(usage_count, threshold)
      new_idx == IF switch THEN FixedAdvance(s.idx, Len(keys)) ELSE s.idx
      key == IF switch THEN keys[new_idx + 1] ELSE current_key
  IN  [s EXCEPT !.key = key, !.n = @ + 1, !.idx = new_idx,
                !.usage = DictInc(s.usage, current_key)]

\* the body of "async with self.usage_count_lock" in _get_fixed_key, with
\* current_key as it was read before the lock was awaited
FixedKeyOf(keys, threshold, current_key, s) ==
  LET usage_count == DictGet(s.usage, current_key, 0)
      switch == ThresholdReached(usage_count, threshold)
      new_idx == IF switch THEN FixedAdvance(s.idx, Len(keys)) ELSE s.idx
      key == IF switch THEN keys[new_idx + 1] ELSE current_key
  IN  [s EXCEPT !.key = key, !.n = @ + 1, !.idx = new_idx,
                !.usage = DictInc(s.usage, key)]

\* under the usage lock: the increment of get_next_key, or the check, the
\* switch and the increment of _get_fixed_key; every lock of the call is
\* released and the key returned
CountUsage(t, pool) ==
  LET l == pool \o "usage_count_lock"
      first == IF Holds(t, pool \o "key_cycle_lock")
               THEN pool \o "key_cycle_lock" ELSE FirstLock(t, pool, "fixed")
      s == IF Holds(t, pool \o "key_cycle_lock")
           THEN [Sel(pool) EXCEPT !.key = TaskOf(t).key, !.n = @ + 1,
                                  !.usage = DictInc(@, TaskOf(t).key)]
           ELSE FixedKeyOf(Keys(pool), usage_threshold, TaskOf(t).key, Sel(pool))
  IN  /\ TaskOf(t).at = l /\ Holds(t, l)
      /\ TaskOf(t).op \in {NextKeyName(pool), "reset_key_manager_instance",
                           "get_next_working_key"}
      /\ Returned(t, pool, s, Release(lock, {l, first}))

\* get_next_working_key is called: its first get_next_key reads the mode
\* and awaits its first lock
CallGetNextWorkingKey(t) ==
  /\ singleton_instance
  /\ TaskOf(t) = Idle
  /\ Room
  /\ task' = Put(t, [TaskOf(t) EXCEPT
           !.op = "get_next_working_key",
           !.at = FirstLock(t, "", usage_mode)])
  /\ lock' = Await(lock, t, FirstLock(t, "", usage_mode))
  /\ CallerOnly

\* every usage count stays within MaxUsage when the calls in flight, this
\* caller's next get_next_key among them, end
RoomForRound ==
  \A k \in DOMAIN key_usage_counts :
    key_usage_counts[k] + Cardinality(OnManager(Tasks)) <= MaxUsage

\* under the failure lock: is_key_valid(current_key) of the loop of
\* get_next_working_key.  A valid key is returned; for an invalid one
\* get_next_key is called again, which awaits its first lock.
CheckKeyValid(t) ==
  LET l == "failure_count_lock"
      current_key == TaskOf(t).key
  IN  /\ TaskOf(t).op = "get_next_working_key"
      /\ TaskOf(t).at = l /\ Holds(t, l)
      /\ IF current_key \notin DOMAIN key_failure_counts
         THEN /\ Done(t, "get_next_working_key", "KeyError")
              /\ lock' = Release(lock, {l})
              /\ UNCHANGED <<singleton_instance, primary, vertex, policy,
                             preserved, handed, epoch>>
         ELSE IF KeyValid(key_failure_counts, current_key)
         THEN /\ Done(t, "get_next_working_key", current_key)
              /\ lock' = Release(lock, {l})
              /\ UNCHANGED <<singleton_instance, primary, vertex, policy,
                             preserved, handed, epoch>>
         ELSE /\ RoomForRound
              /\ task' = Put(t, [TaskOf(t) EXCEPT
                       !.at = FirstLock(t, "", usage_mode)])
              /\ lock' = Await(Release(lock, {l}), t,
                               FirstLock(t, "", usage_mode))
              /\ CallerOnly

\* reset_usage_counts is called: the usage lock is awaited
CallResetUsageCounts(t) ==
  /\ singleton_instance
  /\ TaskOf(t) = Idle
  /\ task' = Put(t, [TaskOf(t) EXCEPT
           !.op = "reset_usage_counts",
           !.at = "usage_count_lock"])
  /\ lock' = Await(lock, t, "usage_count_lock")
  /\ CallerOnly

\* under the usage lock: the primary counts are zeroed; the lock is released
\* and the vertex usage lock awaited
ZeroUsage(t) ==
  /\ TaskOf(t).op = "reset_usage_counts"
  /\ TaskOf(t).at = "usage_count_lock" /\ Holds(t, "usage_count_lock")
  /\ key_usage_counts' = [k \in DOMAIN key_usage_counts |-> 0]
  /\ handed' = [k \in DOMAIN handed |-> 0]
  /\ task' = Put(t, [TaskOf(t) EXCEPT
           !.at = "vertex_usage_count_lock"])
  /\ lock' = Await(Release(lock, {"usage_count_lock"}), t,
                   "vertex_usage_count_lock")
  /\ UNCHANGED <<singleton_instance, api_keys, key_cycle, key_failure_counts,
                 current_fixed_key_index, vertex, policy, preserved,
                 observers, epoch>>

\* under the vertex usage lock: the vertex counts are zeroed
ZeroVertexUsage(t) ==
  /\ TaskOf(t).op = "reset_usage_counts"
  /\ TaskOf(t).at = "vertex_usage_count_lock"
  /\ Holds(t, "vertex_usage_count_lock")
  /\ vertex_key_usage_counts' = [k \in DOMAIN vertex_key_usage_counts |-> 0]
  /\ Done(t, "reset_usage_counts", "None")
  /\ lock' = Release(lock, {"vertex_usage_count_lock"})
  /\ UNCHANGED <<singleton_instance, primary, vertex_api_keys,
                 vertex_key_cycle, vertex_key_failure_counts,
                 current_vertex_fixed_key_index, policy, preserved, handed,
                 epoch>>

\* get_key_manager_instance is called: _singleton_lock is awaited
CallGetKeyManagerInstance(t) ==
  /\ TaskOf(t) = Idle
  /\ epoch < MaxManagers
  /\ task' = Put(t, [TaskOf(t) EXCEPT
           !.op = "get_key_manager_instance",
           !.at = SingletonLock(t)])
  /\ lock' = Await(lock, t, SingletonLock(t))
  /\ CallerOnly

\* under _singleton_lock: the body of get_key_manager_instance, which has no
\* await, with the arguments of the call.  A caller that is still inside
\* get_key_manager_instance notes the manager this call returned.
Construct(t, ak, vk) ==
  /\ TaskOf(t).op = "get_key_manager_instance"
  /\ TaskOf(t).at = SingletonLock(t) /\ Holds(t, SingletonLock(t))
  /\ GetKeyManagerInstance(ak, vk)
  /\ epoch' = IF singleton_instance' /\ ~singleton_instance
              THEN epoch + 1 ELSE epoch
  /\ handed' = IF singleton_instance' /\ ~singleton_instance
               THEN key_usage_counts' ELSE handed
  /\ task' = Busy([u \in Tasks |->
                     IF u = t THEN Idle
                     ELSE IF TaskOf(u).op = "get_key_manager_instance"
                             /\ ret' = "instance"
                     THEN [TaskOf(u) EXCEPT !.seen = epoch']
                     ELSE TaskOf(u)])
  /\ lock' = Release(lock, {SingletonLock(t)})

\* reset_key_manager_instance is called: _singleton_lock is awaited
CallResetKeyManagerInstance(t) ==
  /\ TaskOf(t) = Idle
  /\ task' = Put(t, [TaskOf(t) EXCEPT
           !.op = "reset_key_manager_instance",
           !.at = SingletonLock(t)])
  /\ lock' = Await(lock, t, SingletonLock(t))
  /\ CallerOnly

\* under _singleton_lock: the counts, the indices and the key lists are
\* kept in the globals, then the first hint is asked of get_next_key
KeepState(t) ==
  LET l == SingletonLock(t)
      kept == [preserved EXCEPT
                 !.failure_counts = Some(key_failure_counts),
                 !.vertex_failure_counts = Some(vertex_key_failure_counts),
                 !.usage_counts = Some(key_usage_counts),
                 !.vertex_usage_counts = Some(vertex_key_usage_counts),
                 !.fixed_key_index = Some(current_fixed_key_index),
                 !.vertex_fixed_key_index =
                   Some(current_vertex_fixed_key_index),
                 !.old_api_keys_for_reset = Some(api_keys),
                 !.vertex_old_api_keys_for_reset = Some(vertex_api_keys)]
  IN  /\ TaskOf(t).op = "reset_key_manager_instance"
      /\ TaskOf(t).at = l /\ Holds(t, l)
      /\ IF ~singleton_instance
         THEN /\ Done(t, "reset_key_manager_instance", "None")
              /\ lock' = Release(lock, {l})
              /\ UNCHANGED <<singleton_instance, primary, vertex, policy,
                             preserved, handed, epoch>>
         ELSE IF api_keys # <<>>
         THEN /\ preserved' = kept
              /\ task' = Put(t, [TaskOf(t) EXCEPT
                       !.at = FirstLock(t, "", usage_mode)])
              /\ lock' = Await(lock, t, FirstLock(t, "", usage_mode))
              /\ UNCHANGED <<singleton_instance, primary, vertex, policy,
                             observers, handed, epoch>>
         ELSE ProbeVertex(t, PrimarySel,
                          [kept EXCEPT !.next_key_in_cycle = None], lock)

\* ------------------------------------------------- the locks of every call
\* What a call does to the locks, whatever the data: a plan is the sequence
\* of its lock acquisitions, each with the locks released before the next
\* acquisition or the return.  Where the code branches on data, every branch
\* is a plan.
Seg(l, drop) == [lock |-> l, drop |-> drop]
OneLock(l) == << Seg(l, {l}) >>
Nested(a, b) == << Seg(a, {}), Seg(b, {a, b}) >>
\* the plan, with lock l released at its end as well
ThenDrop(plan, l) ==
  [i \in DOMAIN plan |->
     IF i = Len(plan) THEN Seg(plan[i].lock, plan[i].drop \cup {l})
     ELSE plan[i]]

\* get_next_key / get_next_vertex_key returning a key
NextKeyLocks(t, pool) ==
  { Nested(FirstLock(t, pool, mode), pool \o "usage_count_lock") :
      mode \in {"polling", "fixed"} }

\* is_key_valid / is_vertex_key_valid
IsKeyValidLocks(pool) == OneLock(pool \o "failure_count_lock")

\* the loop of get_next_working_key from a test of current_key on: the key
\* is valid, or the next key is the initial one, or the loop goes round
RECURSIVE WorkingLoopLocks(_, _, _)
WorkingLoopLocks(t, pool, n) ==
  {IsKeyValidLocks(pool)}
    \cup (IF n = 0 THEN {}
          ELSE { IsKeyValidLocks(pool) \o k : k \in NextKeyLocks(t, pool) }
                 \cup { IsKeyValidLocks(pool) \o k \o r :
                          k \in NextKeyLocks(t, pool),
                          r \in WorkingLoopLocks(t, pool, n - 1) })

\* get_next_working_key / get_next_working_vertex_key
WorkingKeyLocks(t, pool) ==
  { k \o r : k \in NextKeyLocks(t, pool),
             r \in WorkingLoopLocks(t, pool, MaxRounds) }

\* faulty variant: the next working key is asked for inside the failure lock
HandleApiFailureLocksNested(t) ==
  {OneLock("failure_count_lock")}
    \cup { ThenDrop(<<Seg("failure_count_lock", {})>> \o w,
                    "failure_count_lock") : w \in WorkingKeyLocks(t, "") }

\* handle_api_failure: the failure lock is released before
\* get_next_working_key is called
HandleApiFailureLocks(t) ==
  {OneLock("failure_count_lock")}
    \cup { OneLock("failure_count_lock") \o w : w \in WorkingKeyLocks(t, "") }

\* reset_key_manager_instance: no instance or two empty pools, or a hint
\* from one pool or from both, all inside _singleton_lock
ResetKeyManagerInstanceLocks(t) ==
  LET inside == NextKeyLocks(t, "") \cup NextKeyLocks(t, "vertex_")
                  \cup { k \o v : k \in NextKeyLocks(t, ""),
                                   v \in NextKeyLocks(t, "vertex_") }
  IN  {OneLock(SingletonLock(t))}
        \cup { ThenDrop(<<Seg(SingletonLock(t), {})>> \o i, SingletonLock(t)) :
                 i \in inside }

Plan(name, plans) == { [op |-> name, rest |-> r] : r \in plans }

\* the calls of a caller and their plans.  A call whose body is one
\* "async with" stands for every call on that lock.
Plans(t) ==
  Plan("get_next_key",
       NextKeyLocks(t, "") \cup {OneLock("key_cycle_lock")})
    \cup Plan("get_next_vertex_key",
              NextKeyLocks(t, "vertex_") \cup {OneLock("vertex_key_cycle_lock")})
    \cup Plan("get_next_working_key", WorkingKeyLocks(t, ""))
    \cup Plan("get_next_working_vertex_key", WorkingKeyLocks(t, "vertex_"))
    \cup Plan("handle_api_failure", HandleApiFailureLocks(t))
    \cup Plan("handle_vertex_api_failure",
              {OneLock("vertex_failure_count_lock")})
    \cup Plan("reset_failure_counts", {OneLock("failure_count_lock")})
    \cup Plan("reset_vertex_failure_counts",
              {OneLock("vertex_failure_count_lock")})
    \cup Plan("get_key_usage_count", {OneLock("usage_count_lock")})
    \cup Plan("get_vertex_key_usage_count",
              {OneLock("vertex_usage_count_lock")})
    \cup Plan("reset_usage_counts",
              {OneLock("usage_count_lock")
                 \o OneLock("vertex_usage_count_lock")})
    \cup Plan("get_keys_by_status",
              {Nested("failure_count_lock", "usage_count_lock")})
    \cup Plan("get_vertex_keys_by_status",
              {Nested("vertex_failure_count_lock", "vertex_usage_count_lock")})
    \cup Plan("get_usage_mode_status",
              {Nested("usage_count_lock", "vertex_usage_count_lock")})
    \cup Plan("get_key_manager_instance", {OneLock(SingletonLock(t))})
    \cup Plan("reset_key_manager_instance", ResetKeyManagerInstanceLocks(t))

\* the request of caller t for lock l is the one the lock is given to
Granted(t, l) ==
  /\ Holds(t, l)
  /\ Cardinality({ i \in DOMAIN Queue(lock, l) : Queue(lock, l)[i] = t }) = 1

\* a caller begins a call: it awaits the first lock of the plan
Begin(t, plan) ==
  /\ TaskOf(t) = Idle
  /\ task' = Put(t, [TaskOf(t) EXCEPT
           !.op = plan.op,
           !.at = Head(plan.rest).lock,
           !.rest = plan.rest])
  /\ lock' = Await(lock, t, Head(plan.rest).lock)
  /\ CallerOnly

\* a caller that was given the lock it awaits runs to its next "async with"
\* or to the end of the call
Proceed(t) ==
  /\ TaskOf(t).rest # <<>>
  /\ Granted(t, TaskOf(t).at)
  /\ LET q == Release(lock, Head(TaskOf(t).rest).drop)
         more == Tail(TaskOf(t).rest)
     IN  IF more = <<>>
         THEN /\ task' = Put(t, Idle)
              /\ lock' = q
         ELSE /\ task' = Put(t, [TaskOf(t) EXCEPT
                       !.at = Head(more).lock,
                       !.rest = more])
              /\ lock' = Await(q, t, Head(more).lock)
  /\ CallerOnly

\* ------------------------------------------------------- specifications
Thresholds == 1..MaxThreshold
Retries == 0..MAX_RETRIES
ListArgs(pools) == { Some(p) : p \in pools }

\* a call that runs while every caller is where it was
Alone == UNCHANGED callers

\* the primary pool and the lifecycle holder, one caller at a time
Next ==
  \/ \E ak \in ListArgs(PrimaryPools), vk \in ListArgs({<<"V1", "V2">>}) :
       GetKeyManagerInstance(ak, vk) /\ Alone
  \/ ResetKeyManagerInstance /\ Alone
  \/ GetNextKey /\ Alone
  \/ GetNextWorkingKey /\ Alone
  \/ \E k \in PrimaryKeys, r \in Retries : HandleApiFailure(k, r) /\ Alone
  \/ ResetFailureCounts /\ Alone
  \/ \E k \in PrimaryKeys : ResetKeyFailureCount(k) /\ Alone
  \/ \E m \in {"polling", "fixed"} : SetUsageMode(m) /\ Alone
  \/ \E n \in Thresholds : SetUsageThreshold(n) /\ Alone
  \/ ResetUsageCounts /\ Alone

Spec == Init /\ [][Next]_vars

\* the vertex pool beside a primary pool of at most one key, and the
\* lifecycle holder, one caller at a time
NextVertex ==
  \/ \E ak \in ListArgs({<<>>, <<"K1">>}), vk \in ListArgs(VertexPools) :
       GetKeyManagerInstance(ak, vk) /\ Alone
  \/ ResetKeyManagerInstance /\ Alone
  \/ GetNextKey /\ Alone
  \/ GetNextVertexKey /\ Alone
  \/ GetNextWorkingVertexKey /\ Alone
  \/ \E k \in VertexKeys : HandleVertexApiFailure(k, 0) /\ Alone
  \/ ResetVertexFailureCounts /\ Alone
  \/ \E m \in {"polling", "fixed"} : SetUsageMode(m) /\ Alone
  \/ ResetUsageCounts /\ Alone

SpecVertex == Init /\ [][NextVertex]_vars

\* rejected arguments, absent keys and queries beside the calls that change
\* what they read
OptionalListArgs(pools) == {None} \cup ListArgs(pools)
AskedKeys == {"K1", "K3"}

NextErr ==
  \/ \E ak \in OptionalListArgs({<<>>, <<"K1", "K2">>}),
        vk \in OptionalListArgs({<<>>, <<"V1">>}) :
       GetKeyManagerInstance(ak, vk) /\ Alone
  \/ ResetKeyManagerInstance /\ Alone
  \/ GetNextKey /\ Alone
  \/ \E k \in AskedKeys : HandleApiFailure(k, MAX_RETRIES) /\ Alone
  \/ \E m \in Modes : SetUsageMode(m) /\ Alone
  \/ \E n \in 0..MaxThreshold : SetUsageThreshold(n) /\ Alone
  \/ \E k \in AskedKeys : IsKeyValid(k) /\ Alone
  \/ \E k \in VertexKeys : IsVertexKeyValid(k) /\ Alone
  \/ \E k \in AskedKeys : ResetKeyFailureCount(k) /\ Alone
  \/ GetKeysByStatus /\ Alone
  \/ GetVertexKeysByStatus /\ Alone
  \/ \E m \in Modes \cup {""},
        n \in {None} \cup { Some(i) : i \in 0..MaxThreshold } :
       SetKeyUsageModeRoute(m, n) /\ Alone

SpecErr == Init /\ [][NextErr]_vars

\* both pools with two keys each under one manager; the usage counts of the
\* two pools together stay within MaxUsage, and failures are reported for
\* the first key of each pool
RECURSIVE Total(_)
Total(counts) ==
  IF DOMAIN counts = {} THEN 0
  ELSE LET k == CHOOSE x \in DOMAIN counts : TRUE
       IN  counts[k] + Total([x \in DOMAIN counts \ {k} |-> counts[x]])

PoolsWithin ==
  Total(key_usage_counts') + Total(vertex_key_usage_counts') <= MaxUsage

NextPools ==
  \/ GetKeyManagerInstance(Some(<<"K1", "K2">>), Some(<<"V1", "V2">>)) /\ Alone
  \/ GetNextKey /\ PoolsWithin /\ Alone
  \/ GetNextVertexKey /\ PoolsWithin /\ Alone
  \/ GetNextWorkingKey /\ PoolsWithin /\ Alone
  \/ GetNextWorkingVertexKey /\ PoolsWithin /\ Alone
  \/ HandleApiFailure("K1", MAX_RETRIES) /\ Alone
  \/ HandleVertexApiFailure("V1", MAX_RETRIES) /\ Alone
  \/ ResetFailureCounts /\ Alone
  \/ ResetVertexFailureCounts /\ Alone
  \/ ResetKeyFailureCount("K1") /\ Alone
  \/ ResetVertexKeyFailureCount("V1") /\ Alone
  \/ \E m \in {"polling", "fixed"} : SetUsageMode(m) /\ Alone
  \/ \E n \in Thresholds : SetUsageThreshold(n) /\ Alone

SpecPools == Init /\ [][NextPools]_vars

\* two callers on one manager of two primary keys, every step of a call of
\* one between the steps of the other's: selection, policy and usage reset
NextCallers ==
  \/ \E t \in Tasks : CallGetKeyManagerInstance(t)
  \/ \E t \in Tasks : Construct(t, Some(<<"K1", "K2">>), Some(<<>>))
  \/ \E t \in Tasks : CallGetNextKey(t)
  \/ \E t \in Tasks : TakeFromCycle(t, "")
  \/ \E t \in Tasks : ReadFixedKey(t, "")
  \/ \E t \in Tasks : CountUsage(t, "")
  \/ \E t \in Tasks : CallResetUsageCounts(t)
  \/ \E t \in Tasks : ZeroUsage(t)
  \/ \E t \in Tasks : ZeroVertexUsage(t)
  \/ \E m \in {"polling", "fixed"} : SetUsageMode(m) /\ Alone
  \/ \E n \in Thresholds : SetUsageThreshold(n) /\ Alone

SpecCallers == Init /\ [][NextCallers]_vars

\* two callers on one manager of two primary keys in polling mode, each in
\* get_next_key or in get_next_working_key, every step of a call of one
\* between the steps of the other's; failures are reported for the first key
\* only, so that the second key is valid at all times
NextWorking ==
  \/ \E t \in Tasks : CallGetKeyManagerInstance(t)
  \/ \E t \in Tasks : Construct(t, Some(<<"K1", "K2">>), Some(<<>>))
  \/ \E t \in Tasks : CallGetNextKey(t)
  \/ \E t \in Tasks : CallGetNextWorkingKey(t)
  \/ \E t \in Tasks : TakeFromCycle(t, "")
  \/ \E t \in Tasks : CountUsage(t, "")
  \/ \E t \in Tasks : CheckKeyValid(t)
  \/ HandleApiFailure("K1", MAX_RETRIES) /\ Alone

SpecWorking == Init /\ [][NextWorking]_vars

\* two callers of the lifecycle holder and of the manager it holds, with two
\* primary keys and one vertex key: get_key_manager_instance and
\* reset_key_manager_instance step by step, with the get_next_key calls of
\* callers between the steps
NextLifecycle ==
  \/ \E t \in Tasks : CallGetKeyManagerInstance(t)
  \/ \E t \in Tasks : Construct(t, Some(<<"K1", "K2">>), Some(<<"V1">>))
  \/ \E t \in Tasks : CallResetKeyManagerInstance(t)
  \/ \E t \in Tasks : KeepState(t)
  \/ \E t \in Tasks : CallGetNextKey(t)
  \/ \E t \in Tasks, pool \in {"", "vertex_"} : TakeFromCycle(t, pool)
  \/ \E t \in Tasks, pool \in {"", "vertex_"} : ReadFixedKey(t, pool)
  \/ \E t \in Tasks, pool \in {"", "vertex_"} : CountUsage(t, pool)
  \/ \E m \in {"polling", "fixed"} : SetUsageMode(m) /\ Alone

SpecLifecycle == Init /\ [][NextLifecycle]_vars

\* two callers, each in any call, at the locks only
NextLocks ==
  \/ \E t \in Tasks : \E plan \in Plans(t) : Begin(t, plan)
  \/ \E t \in Tasks : Proceed(t)

SpecLocks == Init /\ [][NextLocks]_vars

\* the event loop runs every caller that has been given its lock
FairLocks == SpecLocks /\ \A t \in Tasks : WF_vars(Proceed(t))

\* ------------------------------------------------------------- properties
Live == singleton_instance
N == Len(api_keys)
\* the last call asked the primary pool for a key at least once
AskedKey == op.nk >= 1

\* C1: in polling mode on a non-empty pool, the k-th next-key call after a
\* fresh construction (no mode change in between) returns pool[(k-1) mod N];
\* hence N consecutive calls return every key once, in construction order,
\* and call N+1 returns the key of call 1.
C1_PollingOrder ==
  (Live /\ N > 0 /\ calls >= 1 /\ AskedKey)
    => ret = api_keys[((calls - 1) % N) + 1]

\* C1 witness: call N+1 on a two-key pool has returned the first key again
C1_Witness ==
  /\ Live /\ N = 2 /\ calls = N + 1
  /\ op.name = "get_next_key" /\ ret = api_keys[1]

\* value v limited to the range lo..hi
Clamp(v, lo, hi) == IF v < lo THEN lo ELSE IF v > hi THEN hi ELSE v

\* C2: in fixed mode with threshold T, from usage 0 and fixed index 0, the
\* k-th of the first N*T next-key calls returns pool[(k-1) div T]; after it the
\* fixed index is (k-1) div T and key i has been used min(T, max(0, k - i*T))
\* times, so every key is used T times after N*T calls.
C2_FixedFirstPass ==
  (Live /\ N > 0 /\ run >= 1 /\ run <= N * usage_threshold)
    => /\ usage_mode = "fixed"
       /\ current_fixed_key_index = (run - 1) \div usage_threshold
       /\ \A i \in 0..(N - 1) :
            key_usage_counts[api_keys[i + 1]]
              = Clamp(run - i * usage_threshold, 0, usage_threshold)
       /\ AskedKey => ret = api_keys[((run - 1) \div usage_threshold) + 1]

\* C2 witness: N*T = 4 calls done on a two-key pool, every key used T = 2 times
C2_Witness ==
  /\ Live /\ N = 2 /\ usage_threshold = 2 /\ run = 4
  /\ op.name = "get_next_key" /\ ret = api_keys[2]
  /\ \A k \in DOMAIN key_usage_counts : key_usage_counts[k] = 2

\* C3: in fixed mode with threshold T, after a usage reset, the keys returned
\* stay periodic when the fixed index wraps around: the k-th call returns
\* pool[((k-1) div T) mod N] on every pass.
C3_FixedPeriodic ==
  (Live /\ N > 0 /\ run >= 1 /\ op.name = "get_next_key")
    => ret = api_keys[(((run - 1) \div usage_threshold) % N) + 1]

\* C4: next_working_key returns a key with MAX_FAILURES failures or more only
\* if every key of the pool has that many.
C4_WorkingKeyValid ==
  (Live /\ op.name = "get_next_working_key" /\ ret \in DOMAIN key_failure_counts
        /\ key_failure_counts[ret] >= MAX_FAILURES)
    => \A k \in DOMAIN key_failure_counts : key_failure_counts[k] >= MAX_FAILURES

IsFailureReset(o) ==
  o.name \in {"reset_failure_counts", "reset_key_failure_count"}

\* C5: within one manager a failure count never decreases except through the
\* two failure resets, a failure report on a pool key raises the count of that
\* key by exactly 1 and no other, and a key that is invalid stays invalid
\* until one of the two resets is applied.
C5_FailureMonotonic ==
  [][ (Live /\ Live')
        => /\ \A k \in DOMAIN key_failure_counts :
                /\ k \in DOMAIN key_failure_counts'
                /\ key_failure_counts'[k] < key_failure_counts[k]
                     => IsFailureReset(op')
                /\ ~KeyValid(key_failure_counts, k) /\ ~IsFailureReset(op')
                     => ~KeyValid(key_failure_counts', k)
           /\ (op'.name = "handle_api_failure" /\ ret' # "KeyError")
                => key_failure_counts' =
                     [key_failure_counts EXCEPT ![op'.key] = @ + 1] ]_vars

\* C5 witness: a report on an already invalid key has raised its count again
C5_Witness ==
  /\ Live /\ op.name = "handle_api_failure" /\ ret # "KeyError"
  /\ key_failure_counts[op.key] = MAX_FAILURES + 1

\* a manager has just been constructed after a release; Old is the released one
Constructed ==
  Live /\ op.name = "get_key_manager_instance" /\ released # None
Old == The(released)
\* the key the next polling get_next_key call returns
NextPolling == api_keys[key_cycle + 1]

\* C6: release followed by acquire with the identical key lists yields the
\* failure counts, usage counts, fixed index and round-robin resume position
\* the manager had immediately before release.
C6_RehydrationIdempotent ==
  (Constructed /\ Old.api_keys = api_keys)
    => /\ key_failure_counts = Old.failure_counts
       /\ key_usage_counts = Old.usage_counts
       /\ current_fixed_key_index = Old.fixed_key_index
       /\ N > 0 => NextPolling = Old.next_in_cycle

\* C7: after release with old pool O and acquire with new pool P, every key
\* of P has the old manager's failure and usage count if it is in O and 0
\* otherwise, and no key outside P has a counter.
C7_PartialMatch ==
  Constructed
    => /\ DOMAIN key_failure_counts = KeySet(api_keys)
       /\ DOMAIN key_usage_counts = KeySet(api_keys)
       /\ \A k \in KeySet(api_keys) :
            IF k \in KeySet(Old.api_keys)
            THEN /\ key_failure_counts[k] = Old.failure_counts[k]
                 /\ key_usage_counts[k] = Old.usage_counts[k]
            ELSE /\ key_failure_counts[k] = 0
                 /\ key_usage_counts[k] = 0

\* C7 witness: [K1,K2] released with counts on both keys, [K3,K2] acquired:
\* K2 keeps its counts, K3 starts at 0, K1 is gone
C7_Witness ==
  /\ Constructed
  /\ Old.api_keys = <<"K1", "K2">> /\ api_keys = <<"K3", "K2">>
  /\ Old.failure_counts["K1"] > 0 /\ Old.usage_counts["K1"] > 0
  /\ key_failure_counts = [K2 |-> 2, K3 |-> 0]
  /\ key_usage_counts["K2"] > 0 /\ key_usage_counts["K3"] = 0

\* C8 as claimed: after release and acquire with a changed key list the first
\* polling next key is the old epoch's would-be-next key if that key is in
\* the new pool, and the first key of the new pool otherwise.
C8_ResumeOrFirst ==
  (Constructed /\ Old.api_keys # api_keys /\ N > 0)
    => NextPolling = IF Old.next_in_cycle \in KeySet(api_keys)
                     THEN Old.next_in_cycle
                     ELSE api_keys[1]

\* the number of steps from key h to key k in the cyclic order of list old
CyclicDistance(old, h, k) ==
  (IndexOf(old, k) - IndexOf(old, h) + Len(old)) % Len(old)

\* C8 as amended: the first polling next key of the new manager is, counting
\* from the key h that release's own get_next_key call returned, the first
\* key in the cyclic order of the old pool that is in the new pool (h itself
\* if it is there); it is the first key of the new pool only if no old key is
\* in the new pool.  When the released manager was in polling mode, h is the
\* old epoch's would-be-next key.
C8_ResumeSurvivor ==
  (Constructed /\ N > 0)
    => LET surviving == KeySet(Old.api_keys) \cap KeySet(api_keys)
           dist(k) == CyclicDistance(Old.api_keys, Old.hint, k)
       IN  /\ Old.usage_mode = "polling" => Old.hint = Old.next_in_cycle
           /\ IF surviving = {}
              THEN NextPolling = api_keys[1]
              ELSE /\ NextPolling \in surviving
                   /\ \A k \in surviving : dist(NextPolling) <= dist(k)

\* C8 witness: [K1,K2] released with K1 next, [K3,K2] acquired: the cycle
\* resumes at the surviving K2, which is not the first key of the new pool
C8_Witness ==
  /\ Constructed
  /\ Old.api_keys = <<"K1", "K2">> /\ api_keys = <<"K3", "K2">>
  /\ Old.usage_mode = "polling" /\ Old.next_in_cycle = "K1"
  /\ NextPolling = "K2"

\* C9: handle_api_failure on a pool key raises that key's failure count by
\* exactly 1; with retries below MAX_RETRIES it returns what
\* get_next_working_key returns; with retries at or above MAX_RETRIES it
\* returns "" and makes no next-key call, so usage counts, cycle position and
\* fixed index are unchanged.
C9_FailureReport ==
  [][ (Live /\ op'.name = "handle_api_failure"
            /\ op'.key \in DOMAIN key_failure_counts)
        => /\ key_failure_counts'[op'.key] = key_failure_counts[op'.key] + 1
           /\ IF op'.n < MAX_RETRIES
              THEN LET t == NextWorkingKey(api_keys, usage_mode, usage_threshold,
                                           key_failure_counts', PrimarySel)
                   IN  /\ ret' = t.key /\ op'.nk = t.n /\ op'.nk >= 1
                       /\ key_usage_counts' = t.usage
                       /\ key_cycle' = t.cyc
                       /\ current_fixed_key_index' = t.idx
              ELSE /\ ret' = "" /\ op'.nk = 0
                   /\ UNCHANGED <<key_usage_counts, key_cycle,
                                  current_fixed_key_index>> ]_vars

\* C9 witness: a report with retries at the ceiling returned the empty result
C9_Witness ==
  /\ Live /\ op.name = "handle_api_failure" /\ op.n = MAX_RETRIES
  /\ op.key \in DOMAIN key_failure_counts /\ key_failure_counts[op.key] >= 1
  /\ ret = "" /\ op.nk = 0

\* C10: handle_vertex_api_failure on a vertex pool key returns the next
\* working vertex key when retries is below MAX_RETRIES and the empty result
\* (the empty string or None) when the ceiling is reached.
C10_VertexFailureReturnsKey ==
  (Live /\ op.name = "handle_vertex_api_failure"
        /\ op.key \in DOMAIN vertex_key_failure_counts)
    => IF op.n < MAX_RETRIES
       THEN ret \in KeySet(vertex_api_keys)
       ELSE ret \in {"", "None"}

\* the selection state that no counter reset and no policy change touches
Cursors ==
  <<key_cycle, vertex_key_cycle, current_fixed_key_index,
    current_vertex_fixed_key_index>>

AllZero(counts) == \A k \in DOMAIN counts : counts[k] = 0

\* C11: reset_usage_counts sets the usage count of every key of both pools
\* to 0 and leaves every failure count, both fixed indices, both round-robin
\* cursors, the mode and the threshold unchanged.
C11_UsageResetFrame ==
  [][op'.name = "reset_usage_counts"
       => /\ AllZero(key_usage_counts') /\ AllZero(vertex_key_usage_counts')
          /\ DOMAIN key_usage_counts' = KeySet(api_keys)
          /\ DOMAIN vertex_key_usage_counts' = KeySet(vertex_api_keys)
          /\ UNCHANGED <<key_failure_counts, vertex_key_failure_counts,
                         Cursors, policy, api_keys, vertex_api_keys>>]_vars

\* a reset that found the vertex pool past its first key, with a failure
\* recorded, beside a non-empty primary pool
C11_Witness ==
  /\ Live /\ op.name = "reset_usage_counts"
  /\ api_keys # <<>> /\ Len(vertex_api_keys) = 2
  /\ current_vertex_fixed_key_index = 1 /\ vertex_key_cycle = 1
  /\ vertex_key_failure_counts["V2"] > 0
  /\ usage_mode = "fixed"
  /\ AllZero(key_usage_counts) /\ AllZero(vertex_key_usage_counts)

\* C17: get_next_key and get_next_vertex_key on an empty pool end in the
\* empty-pool failure under the polling and under the fixed policy alike.
C17_EmptyPoolFails ==
  /\ (Live /\ op.name = "get_next_key" /\ api_keys = <<>>)
       => ret = "RuntimeError"
  /\ (Live /\ op.name = "get_next_vertex_key" /\ vertex_api_keys = <<>>)
       => ret = "RuntimeError"

\* C16: a snapshot taken by release is applied to at most one constructed
\* manager: whenever a manager is live every _preserved_* global is None,
\* and a manager constructed after a release has no count for a key that the
\* manager just released did not have.
C16_SnapshotConsumed ==
  /\ Live => preserved = NoPreserved
  /\ Constructed =>
       \A k \in KeySet(api_keys) \ KeySet(Old.api_keys) :
         key_failure_counts[k] = 0 /\ key_usage_counts[k] = 0
  /\ (Constructed /\ Old.api_keys = <<>>) =>
       current_fixed_key_index = 0 /\ key_cycle = 0

\* a construction after the release of a manager with counts and a next-key
\* hint whose pool shares no key with the new one
C16_Witness ==
  /\ Constructed /\ preserved = NoPreserved
  /\ Old.api_keys = <<"K1">> /\ api_keys = <<"K3", "K2">>
  /\ Old.failure_counts["K1"] > 0 /\ Old.usage_counts["K1"] > 0
  /\ Old.hint = "K1"

IsCounter(counts, keys) ==
  DOMAIN counts = KeySet(keys) /\ \A k \in DOMAIN counts : counts[k] \in Nat

\* C19: in every state of a live manager the failure counts and the usage
\* counts of each pool are defined on exactly the keys of that pool and are
\* >= 0; a call with a key outside the pool adds no key.
C19_CounterDomains ==
  Live => /\ IsCounter(key_failure_counts, api_keys)
          /\ IsCounter(key_usage_counts, api_keys)
          /\ IsCounter(vertex_key_failure_counts, vertex_api_keys)
          /\ IsCounter(vertex_key_usage_counts, vertex_api_keys)

\* a failure reported for a key that left the pool with the last release
C19_Witness ==
  /\ Live /\ op.name = "handle_api_failure" /\ op.key = "K1"
  /\ api_keys = <<"K3", "K2">> /\ ret = "KeyError"
  /\ key_failure_counts["K2"] > 0 /\ key_usage_counts["K2"] > 0

\* C20: the fixed index of a non-empty pool is a valid index in every state,
\* and the index restored by a construction is min(released index, N - 1).
C20_FixedIndexInRange ==
  /\ (Live /\ N > 0) => current_fixed_key_index \in 0..(N - 1)
  /\ (Live /\ vertex_api_keys # <<>>)
       => current_vertex_fixed_key_index \in 0..(Len(vertex_api_keys) - 1)
  /\ (Constructed /\ N > 0)
       => current_fixed_key_index = Min(Old.fixed_key_index, N - 1)

\* the index 1 of a released two-key pool restored into a one-key pool
C20_Witness ==
  /\ Constructed /\ Len(Old.api_keys) = 2 /\ Old.fixed_key_index = 1
  /\ N = 1 /\ current_fixed_key_index = 0

\* everything but the usage mode and the usage threshold
ManagerState == <<singleton_instance, primary, vertex, preserved>>

\* C12: set_usage_mode with a mode outside {polling, fixed} and
\* set_usage_threshold with n < 1 return False and change nothing; with a
\* valid argument they return True and change only the mode, or only the
\* threshold: no failure count, usage count, fixed index or cycle changes.
C12_PolicySetters ==
  [][/\ op'.name = "set_usage_mode"
          => /\ UNCHANGED <<ManagerState, usage_threshold>>
             /\ IF op'.key \in {"polling", "fixed"}
                THEN ret' = "True" /\ usage_mode' = op'.key
                ELSE ret' = "False" /\ UNCHANGED usage_mode
     /\ op'.name = "set_usage_threshold"
          => /\ UNCHANGED <<ManagerState, usage_mode>>
             /\ IF op'.n >= 1
                THEN ret' = "True" /\ usage_threshold' = op'.n
                ELSE ret' = "False" /\ UNCHANGED usage_threshold]_vars

\* a rejected mode on a manager in fixed mode with counts and an advanced
\* fixed index
C12_Witness ==
  /\ Live /\ op.name = "set_usage_mode" /\ op.key = "random"
  /\ ret = "False" /\ usage_mode = "fixed" /\ usage_threshold = 1
  /\ current_fixed_key_index = 1 /\ key_cycle = 1
  /\ key_failure_counts["K1"] > 0 /\ key_usage_counts["K2"] > 0

\* C13: a reset or a validity query for a key that is not in the pool does
\* not raise: reset_key_failure_count and is_key_valid (is_vertex_key_valid)
\* return False.
C13_AbsentKeyNoRaise ==
  /\ (Live /\ op.name \in {"is_key_valid", "reset_key_failure_count"}
           /\ op.key \notin KeySet(api_keys)) => ret = "False"
  /\ (Live /\ op.name = "is_vertex_key_valid"
           /\ op.key \notin KeySet(vertex_api_keys)) => ret = "False"

\* C14: while a manager is live, get_key_manager_instance with any arguments
\* (other key lists, or none) returns that manager and changes neither its
\* state nor the preserved state.
C14_AcquireWhileLive ==
  [][(Live /\ op'.name = "get_key_manager_instance")
       => /\ ret' = "instance"
          /\ UNCHANGED <<ManagerState, policy>>]_vars

\* an acquire without key lists that found a used manager in fixed mode
C14_Witness ==
  /\ Live /\ op.name = "get_key_manager_instance" /\ op.n = 3
  /\ ret = "instance" /\ usage_mode = "fixed" /\ N = 2
  /\ key_usage_counts["K1"] > 0 /\ key_failure_counts["K1"] > 0

\* C15: without a live manager, get_key_manager_instance raises ValueError
\* when api_keys or vertex_api_keys is None and no manager is live
\* afterwards; with two lists, empty or not, it constructs a manager of
\* these lists.
C15_AcquireArguments ==
  [][(~Live /\ op'.name = "get_key_manager_instance")
       => IF op'.n > 0
          THEN /\ ret' = "ValueError" /\ ~Live'
               /\ UNCHANGED <<ManagerState, policy>>
          ELSE /\ ret' = "instance" /\ Live'
               /\ api_keys' \in {<<>>, <<"K1", "K2">>}
               /\ vertex_api_keys' \in {<<>>, <<"V1">>}]_vars

\* an acquire without the vertex list after a release: no manager, and the
\* released state still preserved
C15_Witness ==
  /\ ~Live /\ op.name = "get_key_manager_instance" /\ op.n = 2
  /\ ret = "ValueError"
  /\ preserved.old_api_keys_for_reset = Some(<<"K1", "K2">>)

\* the report r is the partition of the key list by validity, with the
\* counts fail and usage
ReportOf(r, keys, fail, usage) ==
  /\ DOMAIN r.valid_keys \cup DOMAIN r.invalid_keys = KeySet(keys)
  /\ DOMAIN r.valid_keys \cap DOMAIN r.invalid_keys = {}
  /\ \A k \in KeySet(keys) :
       LET info == [fail_count |-> fail[k], usage_count |-> usage[k]]
       IN  IF fail[k] < MAX_FAILURES
           THEN k \in DOMAIN r.valid_keys /\ r.valid_keys[k] = info
           ELSE k \in DOMAIN r.invalid_keys /\ r.invalid_keys[k] = info

\* C18: get_keys_by_status (get_vertex_keys_by_status) returns a partition
\* of the pool: every pool key is in exactly one of valid_keys and
\* invalid_keys, in valid_keys iff its failure count is below MAX_FAILURES,
\* with the failure and usage count of one state of the manager, which is
\* the state before and after the call: the call changes nothing.
C18_StatusPartition ==
  [][/\ op'.name = "get_keys_by_status"
          => /\ ReportOf(op'.out, api_keys, key_failure_counts,
                         key_usage_counts)
             /\ UNCHANGED <<ManagerState, policy>>
     /\ op'.name = "get_vertex_keys_by_status"
          => /\ ReportOf(op'.out, vertex_api_keys, vertex_key_failure_counts,
                         vertex_key_usage_counts)
             /\ UNCHANGED <<ManagerState, policy>>]_vars

\* a report with the used key K1 invalid and the used key K2 valid
C18_Witness ==
  /\ Live /\ op.name = "get_keys_by_status" /\ N = 2
  /\ DOMAIN op.out.invalid_keys = {"K1"} /\ DOMAIN op.out.valid_keys = {"K2"}
  /\ op.out.invalid_keys["K1"].usage_count > 0
  /\ op.out.valid_keys["K2"].usage_count > 0

\* C24: with one caller and a non-empty pool get_next_working_key returns,
\* under either policy and also when every key is invalid, a key of the
\* pool; in polling mode it makes at most N + 1 get_next_key calls (in fixed
\* mode at most (N - 1) * threshold + 2).
C24_WorkingKeyTerminates ==
  (Live /\ op.name = "get_next_working_key" /\ N > 0)
    => /\ ret \in KeySet(api_keys)
       /\ op.nk >= 1
       /\ usage_mode = "polling" => op.nk <= N + 1
       /\ usage_mode = "fixed" => op.nk <= (N - 1) * usage_threshold + 2

\* every key invalid in polling mode: the full round of N + 1 calls
C24_Witness ==
  /\ Live /\ op.name = "get_next_working_key" /\ N = 2
  /\ usage_mode = "polling" /\ op.nk = N + 1
  /\ \A k \in KeySet(api_keys) : ~KeyValid(key_failure_counts, k)
  /\ ret \in KeySet(api_keys)

\* C25: the key-invalid warning is logged exactly once per key between
\* resets: by the handle_api_failure call that raises the failure count to
\* MAX_FAILURES and by no later call on that key.
C25_WarningOnce ==
  (Live /\ op.name = "handle_api_failure"
        /\ op.key \in DOMAIN key_failure_counts)
    => (op.warn <=> key_failure_counts[op.key] = MAX_FAILURES)

\* C26: reset_failure_counts sets the failure count of every primary key to
\* 0, reset_key_failure_count(k) for a pool key k sets only that of k to 0
\* and returns True; the reset keys are valid afterwards, and usage counts,
\* fixed indices, cycles, mode, threshold and the other failure counts are
\* unchanged.
C26_FailureResetFrame ==
  [][/\ op'.name = "reset_failure_counts"
          => /\ key_failure_counts' = ZeroCounts(api_keys)
             /\ \A k \in KeySet(api_keys) : KeyValid(key_failure_counts', k)
             /\ UNCHANGED <<singleton_instance, api_keys, key_usage_counts,
                            Cursors, vertex, policy, preserved>>
     /\ (op'.name = "reset_key_failure_count" /\ op'.key \in KeySet(api_keys))
          => /\ ret' = "True"
             /\ key_failure_counts' =
                  [key_failure_counts EXCEPT ![op'.key] = 0]
             /\ KeyValid(key_failure_counts', op'.key)
             /\ UNCHANGED <<singleton_instance, api_keys, key_usage_counts,
                            Cursors, vertex, policy, preserved>>]_vars

\* K1 reset beside the invalid key K2, in fixed mode past the first key
C26_Witness ==
  /\ Live /\ op.name = "reset_key_failure_count" /\ op.key = "K1"
  /\ ret = "True" /\ api_keys = <<"K1", "K2">>
  /\ key_failure_counts["K1"] = 0
  /\ ~KeyValid(key_failure_counts, "K2")
  /\ current_fixed_key_index = 1 /\ key_usage_counts["K1"] > 0

\* C30: the policy is not preserved: after release and acquire the mode and
\* the threshold of the new manager are the configured defaults, whatever
\* the released manager had been set to, while its counts (for the keys
\* that stay) and its fixed index are carried over.
C30_PolicyNotPreserved ==
  Constructed
    => /\ usage_mode = KEY_USAGE_MODE
       /\ usage_threshold = KEY_USAGE_THRESHOLD
       /\ \A k \in KeySet(api_keys) \cap KeySet(Old.api_keys) :
            /\ key_failure_counts[k] = Old.failure_counts[k]
            /\ key_usage_counts[k] = Old.usage_counts[k]
       /\ N > 0 => current_fixed_key_index = Min(Old.fixed_key_index, N - 1)

\* a manager released in fixed mode with counts and index 1
C30_Witness ==
  /\ Constructed
  /\ Old.usage_mode = "fixed" /\ Old.usage_mode # KEY_USAGE_MODE
  /\ Old.api_keys = <<"K1", "K2">> /\ api_keys = Old.api_keys
  /\ current_fixed_key_index = 1
  /\ key_usage_counts["K1"] > 0 /\ key_failure_counts["K2"] > 0

\* C28: a usage-mode request to the route that is rejected for invalid input
\* (no valid mode, or a valid mode with a threshold below 1) leaves the mode
\* and the threshold of the manager unchanged.
C28_RejectedRouteRequest ==
  [][(op'.name = "set_key_usage_mode" /\ ret' = "400")
       => UNCHANGED <<usage_mode, usage_threshold>>]_vars

PrimaryOps ==
  {"get_next_key", "get_next_working_key", "handle_api_failure",
   "reset_failure_counts", "reset_key_failure_count"}
VertexOps ==
  {"get_next_vertex_key", "get_next_working_vertex_key",
   "handle_vertex_api_failure", "reset_vertex_failure_counts",
   "reset_vertex_key_failure_count"}

\* C27: the operations on the primary pool leave failure counts, usage
\* counts, fixed index and cycle of the vertex pool unchanged and the vertex
\* operations those of the primary pool; mode and threshold are shared: a
\* set_usage_mode or set_usage_threshold call changes no pool state, and the
\* next-key calls of both pools select by the one mode and threshold.
C27_PoolsIndependent ==
  [][/\ op'.name \in PrimaryOps => UNCHANGED <<vertex, policy>>
     /\ op'.name \in VertexOps => UNCHANGED <<primary, policy>>
     /\ op'.name \in {"set_usage_mode", "set_usage_threshold"}
          => UNCHANGED <<primary, vertex>>
     /\ op'.name = "get_next_key"
          => ret' = NextKey(api_keys, usage_mode, usage_threshold,
                            PrimarySel).key
     /\ op'.name = "get_next_vertex_key"
          => ret' = NextKey(vertex_api_keys, usage_mode, usage_threshold,
                            VertexSel).key]_vars

\* a vertex failure reset in fixed mode beside a primary pool with a
\* failure, used keys, an advanced cycle and an advanced fixed index
C27_Witness ==
  /\ Live /\ op.name = "reset_vertex_failure_counts"
  /\ usage_mode = "fixed" /\ N = 2 /\ Len(vertex_api_keys) = 2
  /\ key_failure_counts["K1"] > 0 /\ key_usage_counts["K2"] > 0
  /\ key_cycle = 1 /\ current_fixed_key_index = 1
  /\ vertex_key_usage_counts["V1"] > 0

\* a step in which caller t ends a get_next_key call of its own
EndsNextKey(t) ==
  /\ TaskOf(t).op = "get_next_key" /\ TaskOf(t).at = "usage_count_lock"
  /\ t \notin DOMAIN task'

\* C21: with fixed-mode get_next_key calls of several callers interleaved
\* at every await, each call acts as one atomic step at the moment it ends:
\* the index, the usage counts and the key returned are those of
\* _get_fixed_key run without interruption on the state the call ends in,
\* and the index moves on only if the usage count of the key it points to
\* has reached the threshold.
C21_FixedCallAtomic ==
  [][/\ \A t \in Tasks :
          EndsNextKey(t) /\ ~Holds(t, "key_cycle_lock")
            => LET s == FixedKey(api_keys, usage_threshold, PrimarySel)
               IN  /\ current_fixed_key_index' = s.idx
                   /\ key_usage_counts' = s.usage
                   /\ ret' = s.key
     /\ Live /\ Live' /\ current_fixed_key_index' # current_fixed_key_index
          => /\ key_usage_counts[api_keys[current_fixed_key_index + 1]]
                  >= usage_threshold
             /\ current_fixed_key_index'
                  = (current_fixed_key_index + 1) % N]_vars

\* a fixed-mode call has moved the index to the second key and returned
\* it, while one caller is between its two locks and the other waits for
\* the fixed-key lock
C21_Witness ==
  /\ Live /\ current_fixed_key_index = 1
  /\ op.name = "get_next_key" /\ ret = "K2"
  /\ \E t, u \in Tasks :
       /\ Holds(t, "fixed_key_lock") /\ TaskOf(t).at = "usage_count_lock"
       /\ TaskOf(u).at = "fixed_key_lock" /\ ~Holds(u, "fixed_key_lock")

\* C22: no usage increment is lost, whatever the interleaving of polling
\* and fixed get_next_key calls, mode changes and usage resets: the usage
\* count of every key is the number of times the key was handed out since
\* the construction or the last reset_usage_counts, and so the sum of the
\* counts is the number of calls that returned a key.
C22_NoLostIncrement ==
  Live => /\ key_usage_counts = handed
          /\ Total(key_usage_counts) = Total(handed)

\* both keys were handed out, the mode is fixed, one caller has taken a key
\* from the cycle before the mode changed and the other has read the fixed
\* key, and neither has counted yet
C22_Witness ==
  /\ Live /\ usage_mode = "fixed"
  /\ handed = [k \in {"K1", "K2"} |-> 1]
  /\ \E t, u \in Tasks :
       /\ Holds(t, "key_cycle_lock") /\ TaskOf(t).at = "usage_count_lock"
       /\ Holds(u, "fixed_key_lock") /\ TaskOf(u).at = "usage_count_lock"

\* a step in which get_key_manager_instance returns a manager to caller t
AcquireReturns(t) ==
  /\ TaskOf(t).op = "get_key_manager_instance" /\ t \notin DOMAIN task'
  /\ ret' = "instance"

\* caller u is inside reset_key_manager_instance and has kept the state
Releasing(u) ==
  TaskOf(u).op = "reset_key_manager_instance" /\ TaskOf(u).at \in ManagerLocks

\* C23: get_key_manager_instance and reset_key_manager_instance exclude
\* each other in every interleaving.  When get_key_manager_instance returns
\* a manager, nothing is left to restore (the preserved globals are
\* cleared, the counts are defined for the keys of the manager, index and
\* cycle lie within the pool), no caller is inside a
\* reset_key_manager_instance that has kept the state of that manager, and
\* a caller that was inside get_key_manager_instance while another call of
\* it returned gets the same manager.
C23_LifecycleExclusive ==
  [][\A t \in Tasks :
       AcquireReturns(t)
         => /\ singleton_instance' /\ preserved' = NoPreserved
            /\ DOMAIN key_failure_counts' = KeySet(api_keys')
            /\ DOMAIN key_usage_counts' = KeySet(api_keys')
            /\ api_keys' # <<>>
                 => /\ current_fixed_key_index' \in 0..(Len(api_keys') - 1)
                    /\ key_cycle' \in 0..(Len(api_keys') - 1)
            /\ \A u \in Tasks : ~Releasing(u)
            /\ TaskOf(t).seen # 0 => epoch' = TaskOf(t).seen]_vars

\* the second manager, with the usage count of the first restored, was
\* returned to a caller while the other caller was inside
\* get_key_manager_instance too
C23_Witness ==
  /\ Live /\ op.name = "get_key_manager_instance" /\ ret = "instance"
  /\ epoch = 2 /\ key_usage_counts["K1"] > 0
  /\ \E u \in Tasks :
       TaskOf(u).op = "get_key_manager_instance" /\ TaskOf(u).seen = 2

\* the order of the locks: _singleton_lock, then a cycle, fixed-key or
\* failure lock, then usage_count_lock, then vertex_usage_count_lock
Rank(l) ==
  IF l = "_singleton_lock" THEN 0
  ELSE IF l = "usage_count_lock" THEN 2
  ELSE IF l = "vertex_usage_count_lock" THEN 3
  ELSE 1

\* the locks caller t holds, the lock it was given but has not entered
\* excluded
HeldBy(t) ==
  { l \in Locks : Holds(t, l) /\ (TaskOf(t).at = l => ~Granted(t, l)) }

\* caller t awaits a lock that another request holds
Blocked(t) == TaskOf(t).at # "" /\ ~Granted(t, TaskOf(t).at)

\* every lock is awaited with locks of lower rank held only
LockOrder ==
  \A t \in Tasks :
    TaskOf(t).at # "" => \A h \in HeldBy(t) : Rank(h) < Rank(TaskOf(t).at)

\* following the holders of awaited locks from t, for at most n callers, a
\* caller is found that is not blocked
RECURSIVE Ends(_, _)
Ends(t, n) ==
  IF ~Blocked(t) THEN TRUE
  ELSE IF n = 0 THEN FALSE
  ELSE Ends(Head(Queue(lock, TaskOf(t).at)), n - 1)

\* no caller waits for itself, directly or by way of other callers
NoDeadlock == \A t \in Tasks : Ends(t, Cardinality(Tasks))

\* C29: every call awaits its locks in the order _singleton_lock, then a
\* cycle, fixed-key or failure lock, then usage_count_lock, then
\* vertex_usage_count_lock; no interleaving of the calls of two callers
\* ends in callers that wait for each other, and a caller that waits for a
\* lock is given it.
C29_LockOrderNoDeadlock ==
  /\ [](LockOrder /\ NoDeadlock)
  /\ \A t \in Tasks : Blocked(t) ~> ~Blocked(t)

\* a caller inside reset_key_manager_instance holds _singleton_lock and
\* key_cycle_lock and waits for usage_count_lock, which a caller inside
\* get_usage_mode_status holds while it awaits vertex_usage_count_lock
C29_Witness ==
  \E t, u \in Tasks :
    /\ TaskOf(t).op = "reset_key_manager_instance"
    /\ {"_singleton_lock", "key_cycle_lock"} \subseteq HeldBy(t)
    /\ TaskOf(t).at = "usage_count_lock" /\ Blocked(t)
    /\ TaskOf(u).op = "get_usage_mode_status"
    /\ "usage_count_lock" \in HeldBy(u)
    /\ TaskOf(u).at = "vertex_usage_count_lock"

\* C31: reset_key_manager_instance copies failure counts, usage counts and
\* fixed index before it calls get_next_key for the hint: the copies are the
\* values of the state the release started in, without the increment and
\* the index switch of the hint call, and the next construction gives the
\* key of the hint the usage count it had before the release.
C31_HintCallNotPreserved ==
  [][/\ (Live /\ op'.name = "reset_key_manager_instance")
          => /\ preserved'.failure_counts = Some(key_failure_counts)
             /\ preserved'.usage_counts = Some(key_usage_counts)
             /\ preserved'.fixed_key_index = Some(current_fixed_key_index)
             /\ N > 0 => preserved'.next_key_in_cycle
                           = Some(NextKey(api_keys, usage_mode,
                                          usage_threshold, PrimarySel).key)
     /\ (~Live /\ Live' /\ released # None /\ Old.hint \in KeySet(api_keys'))
          => /\ key_usage_counts'[Old.hint] = Old.usage_counts[Old.hint]
             /\ key_usage_counts'[Old.hint] # Old.usage_counts[Old.hint] + 1
             /\ current_fixed_key_index'
                  = Min(Old.fixed_key_index, Len(api_keys') - 1)]_vars

\* a manager released in fixed mode when the usage of its fixed key K1 had
\* reached the threshold: the hint call switched to K2 and counted it, and
\* the manager constructed next has index 0 and the old count of K2
C31_Witness ==
  /\ Constructed /\ Old.usage_mode = "fixed"
  /\ Old.api_keys = <<"K1", "K2">> /\ api_keys = Old.api_keys
  /\ Old.fixed_key_index = 0 /\ Old.hint = "K2"
  /\ Old.usage_counts["K2"] = 1
  /\ current_fixed_key_index = 0 /\ key_usage_counts["K2"] = 1

\* C32: get_key_manager_instance that raises ValueError, and
\* reset_key_manager_instance called while no manager is live, change no
\* _preserved_* global (and nothing else); the construction that follows
\* applies what the last release of a manager kept: the counts of the keys
\* that stay, 0 for the new keys, the fixed index within the new pool, the
\* cycle at the kept hint, and it clears the globals.
C32_FailedCallsKeepSnapshot ==
  [][/\ (op'.name = "get_key_manager_instance" /\ ret' = "ValueError")
          => ~Live' /\ UNCHANGED <<ManagerState, policy>>
     /\ (~Live /\ op'.name = "reset_key_manager_instance")
          => ~Live' /\ UNCHANGED <<ManagerState, policy>>
     /\ (~Live /\ Live' /\ released # None)
          => /\ \A k \in KeySet(api_keys') :
                  IF k \in KeySet(Old.api_keys)
                  THEN /\ key_failure_counts'[k] = Old.failure_counts[k]
                       /\ key_usage_counts'[k] = Old.usage_counts[k]
                  ELSE key_failure_counts'[k] = 0 /\ key_usage_counts'[k] = 0
             /\ api_keys' # <<>>
                  => current_fixed_key_index'
                       = Min(Old.fixed_key_index, Len(api_keys') - 1)
             /\ Old.hint \in KeySet(api_keys') => NextPolling' = Old.hint
             /\ preserved' = NoPreserved]_vars

\* an acquire without the primary list has raised ValueError after the
\* release of a manager with a failure and a used key: no manager is live
\* and the counts are still in the globals
C32_Witness ==
  /\ ~Live /\ op.name = "get_key_manager_instance" /\ op.n = 1
  /\ ret = "ValueError" /\ released # None
  /\ preserved.old_api_keys_for_reset = Some(<<"K1", "K2">>)
  /\ The(preserved.failure_counts)["K1"] > 0
  /\ The(preserved.usage_counts)["K2"] > 0
  /\ preserved.next_key_in_cycle # None

=============================================================================
